---- MODULE Spec2Model ----
(***************************************************************************)
(* Model of the mini-mart inventory program: the product catalog           *)
(* (ProductManager), the transaction ledger (TransactionManager), the      *)
(* SearchEngine (index, ranked search, autocomplete) and the demand        *)
(* estimator of the report module.                                         *)
(*                                                                         *)
(* Python strings are modelled as sequences of one-character strings, so   *)
(* that normalisation, prefix, substring and similarity tests are computed *)
(* character by character as the code computes them.  Python None is the   *)
(* token None.                                                             *)
(***************************************************************************)
EXTENDS Integers, Sequences, FiniteSets, TLC

\* ------------------------------------------------------------------------
\* Bounds of the model
\* ------------------------------------------------------------------------
\* Largest number of products in the catalog.
MaxProducts == 2
\* Largest number of add_transaction calls appended to the loaded ledger.
MaxTx == 2
\* Largest catalog the search specification starts from.
MaxCatalog == 2

\* ------------------------------------------------------------------------
\* Python values
\* ------------------------------------------------------------------------
None == "<None>"

\* An integer attribute that may be missing: getattr(obj, name, None) gives
\* None for Absent and the number for Present(n).
Absent == [present |-> FALSE, value |-> 0]
Present(n) == [present |-> TRUE, value |-> n]

Min(a, b) == IF a <= b THEN a ELSE b
Max(a, b) == IF a >= b THEN a ELSE b

RECURSIVE SumSeq(_)
SumSeq(s) == IF s = <<>> THEN 0 ELSE Head(s) + SumSeq(Tail(s))

\* ------------------------------------------------------------------------
\* Strings: sequences over a small alphabet with an upper-case letter, an
\* accented letter (written "a'": the letter a with an acute accent, U+00E1)
\* and the blank.
\* ------------------------------------------------------------------------
Chars == {"a", "b", "c", "A", "a'", " ", "1", "2"}

\* Unicode code points, the order Python compares str by.
CodePoint(c) ==
    CASE c = " " -> 32
      [] c = "1" -> 49
      [] c = "2" -> 50
      [] c = "A" -> 65
      [] c = "a" -> 97
      [] c = "b" -> 98
      [] c = "c" -> 99
      [] c = "a'" -> 225

\* str.lower() on one character.
LowerChar(c) == IF c = "A" THEN "a" ELSE c

\* unicodedata.normalize("NFKD", c) with the combining marks dropped.
NFKDStripChar(c) == IF c = "a'" THEN "a" ELSE c

\* unidecode.unidecode(c).  On this alphabet it agrees with NFKDStripChar;
\* the two differ only on letters that have no decomposition.
UnidecodeChar(c) == IF c = "a'" THEN "a" ELSE c

IsSpace(c) == c = " "

Lower(s) == [i \in 1..Len(s) |-> LowerChar(s[i])]

RECURSIVE LStrip(_)
LStrip(s) == IF s # <<>> /\ IsSpace(Head(s)) THEN LStrip(Tail(s)) ELSE s

RECURSIVE RStrip(_)
RStrip(s) ==
    IF s # <<>> /\ IsSpace(s[Len(s)]) THEN RStrip(SubSeq(s, 1, Len(s) - 1)) ELSE s

\* str.strip()
Strip(s) == RStrip(LStrip(s))

\* " ".join(s.split()) for a string s: runs of blanks become one blank and
\* the blanks at both ends go.
RECURSIVE JoinSplit(_)
JoinSplit(s) ==
    LET t == LStrip(s) IN
    IF t = <<>> THEN <<>>
    ELSE IF IsSpace(Head(t)) THEN JoinSplit(t)
    ELSE LET rest == Tail(t) IN
         IF rest = <<>> THEN <<Head(t)>>
         ELSE IF IsSpace(Head(rest))
              THEN LET r == JoinSplit(rest) IN
                   IF r = <<>> THEN <<Head(t)>> ELSE <<Head(t), " ">> \o r
              ELSE <<Head(t)>> \o JoinSplit(rest)

\* str.startswith
StartsWith(s, prefix) ==
    Len(prefix) <= Len(s) /\ SubSeq(s, 1, Len(prefix)) = prefix

\* the Python test "sub in s" on strings
Contains(sub, s) ==
    \E i \in 0..(Len(s) - Len(sub)) : SubSeq(s, i + 1, i + Len(sub)) = sub

\* Python's order on str: lexicographic by code point.
RECURSIVE StrLess(_, _)
StrLess(s, t) ==
    IF t = <<>> THEN FALSE
    ELSE IF s = <<>> THEN TRUE
    ELSE IF CodePoint(Head(s)) # CodePoint(Head(t))
         THEN CodePoint(Head(s)) < CodePoint(Head(t))
         ELSE StrLess(Tail(s), Tail(t))

\* ------------------------------------------------------------------------
\* Similarity measures behind the fuzzy tier
\* ------------------------------------------------------------------------
\* difflib.SequenceMatcher.find_longest_match on a[alo..ahi], b[blo..bhi]
\* (1-based, inclusive): the longest common block; of the longest ones the
\* one that starts earliest in a, and of those the earliest in b.  The
\* result is <<i, j, k>>, k = 0 when there is no common character.
BlockAt(a, b, i, j, k) == \A d \in 0..(k - 1) : a[i + d] = b[j + d]

FindLongestMatch(a, b, alo, ahi, blo, bhi) ==
    LET Blocks == {t \in (alo..ahi) \X (blo..bhi) \X (1..Len(a)) :
                      /\ t[1] + t[3] - 1 <= ahi
                      /\ t[2] + t[3] - 1 <= bhi
                      /\ BlockAt(a, b, t[1], t[2], t[3])}
    IN IF Blocks = {} THEN <<alo, blo, 0>>
       ELSE CHOOSE t \in Blocks :
              \A u \in Blocks :
                 \/ t[3] > u[3]
                 \/ t[3] = u[3] /\ t[1] < u[1]
                 \/ t[3] = u[3] /\ t[1] = u[1] /\ t[2] <= u[2]

\* The number of matched characters SequenceMatcher.get_matching_blocks
\* adds up: the longest block, then the same to its left and to its right.
RECURSIVE MatchingChars(_, _, _, _, _, _)
MatchingChars(a, b, alo, ahi, blo, bhi) ==
    IF alo > ahi \/ blo > bhi THEN 0
    ELSE LET m == FindLongestMatch(a, b, alo, ahi, blo, bhi) IN
         IF m[3] = 0 THEN 0
         ELSE m[3] + MatchingChars(a, b, alo, m[1] - 1, blo, m[2] - 1)
                   + MatchingChars(a, b, m[1] + m[3], ahi, m[2] + m[3], bhi)

\* _fuzzy_fallback: SequenceMatcher(None, a, b).ratio() >= threshold / 100,
\* the ratio being 2 * M / (len(a) + len(b)).
_fuzzy_fallback(a, b, threshold) ==
    IF a = <<>> \/ b = <<>> THEN FALSE
    ELSE 200 * MatchingChars(a, b, 1, Len(a), 1, Len(b))
            >= threshold * (Len(a) + Len(b))

\* Length of the longest common subsequence.
RECURSIVE LCS(_, _)
LCS(a, b) ==
    IF a = <<>> \/ b = <<>> THEN 0
    ELSE IF Head(a) = Head(b) THEN 1 + LCS(Tail(a), Tail(b))
    ELSE Max(LCS(Tail(a), b), LCS(a, Tail(b)))

\* rapidfuzz.fuzz.partial_ratio(s1, s2) >= threshold.  partial_ratio is the
\* best fuzz.ratio of the shorter string against a window of the longer one:
\* every window of the shorter string's length, and the shorter windows at
\* both ends; fuzz.ratio is 100 * 2 * LCS / (sum of the lengths).
PartialRatioAtLeast(s1, s2, threshold) ==
    IF s1 = <<>> \/ s2 = <<>> THEN FALSE
    ELSE LET short == IF Len(s1) <= Len(s2) THEN s1 ELSE s2
             long  == IF Len(s1) <= Len(s2) THEN s2 ELSE s1
             m     == Len(short)
             Windows == {w \in (1..Len(long)) \X (1..Len(long)) :
                            /\ w[1] <= w[2]
                            /\ w[2] - w[1] + 1 <= m
                            /\ \/ w[2] - w[1] + 1 = m
                               \/ w[1] = 1
                               \/ w[2] = Len(long)}
         IN \E w \in Windows :
               200 * LCS(short, SubSeq(long, w[1], w[2]))
                  >= threshold * (m + w[2] - w[1] + 1)

\* ------------------------------------------------------------------------
\* State
\* ------------------------------------------------------------------------
VARIABLES
    category_names,      \* CategoryManager._names
    products,            \* ProductManager.products, a list of Product
    version,             \* getattr(product_mgr, "version", None): the class
                         \* sets no such attribute, so it is Absent
    transactions,        \* TransactionManager.transactions, a list of Transaction
    trans_mgr_attached,  \* whether SearchEngine was given a TransactionManager
    _index,              \* SearchEngine._index: NoIndex or a list of entries
    _index_version,      \* SearchEngine._index_version
    has_rapidfuzz,       \* _HAS_RAPIDFUZZ: the optional import succeeded
    has_unidecode,       \* "import unidecode" succeeds in normalize_name
    field_order,         \* the order in which list(allowed) yields the set
    ret                  \* the last call: its arguments and what it returned

vars == <<category_names, products, version, transactions, trans_mgr_attached,
          _index, _index_version, has_rapidfuzz, has_unidecode, field_order, ret>>

\* What no operation assigns: the environment of the process.
env_vars == <<trans_mgr_attached, has_rapidfuzz, has_unidecode, field_order>>

AllowedFields == {"product_id", "name", "category"}

\* list(allowed) iterates a set of str: the order follows the strings' hashes,
\* which are salted per process, so any order can come out and it stays the
\* same for the life of the process.
FieldOrders ==
    {o \in [1..3 -> AllowedFields] : \A f \in AllowedFields : \E i \in 1..3 : o[i] = f}

\* ------------------------------------------------------------------------
\* src/utils/validators.py and src/inventory/validators.py
\* ------------------------------------------------------------------------
\* utils.validators.normalize_name(name, ascii_only)
normalize_name(name, ascii_only) ==
    LET s == JoinSplit(Lower(Strip(name))) IN
    IF ascii_only /\ has_unidecode THEN [i \in 1..Len(s) |-> UnidecodeChar(s[i])] ELSE s

\* inventory.validators.normalize_name(name), the one product_manager imports
inventory_normalize_name(name) == Lower(Strip(name))

\* sreach._remove_accents
_remove_accents(s) ==
    IF s = <<>> THEN <<>> ELSE Lower([i \in 1..Len(s) |-> NFKDStripChar(s[i])])

\* ------------------------------------------------------------------------
\* CategoryManager
\* ------------------------------------------------------------------------
\* CategoryManager.is_valid_name
is_valid_name(name) ==
    \E i \in 1..Len(category_names) :
        normalize_name(category_names[i], FALSE) = normalize_name(name, FALSE)

\* The position of the first stored name equal to name under
\* normalize_name, 0 when there is none.
FirstCategoryNamed(name) ==
    LET hits == {i \in 1..Len(category_names) :
                    normalize_name(category_names[i], FALSE) = normalize_name(name, FALSE)}
    IN IF hits = {} THEN 0 ELSE CHOOSE i \in hits : \A j \in hits : i <= j

\* ------------------------------------------------------------------------
\* Product and ProductManager
\* ------------------------------------------------------------------------
\* Product.__post_init__: the identifier is stripped and must not be empty,
\* stock and threshold must be >= 0, cost >= 0 and sell price >= cost.
ProductValid(product_id, cost_price, sell_price, stock_quantity, min_threshold) ==
    /\ Strip(product_id) # <<>>
    /\ stock_quantity >= 0
    /\ min_threshold >= 0
    /\ cost_price >= 0
    /\ sell_price >= cost_price

Product(product_id, name, category, cost_price, sell_price, stock_quantity, min_threshold) ==
    [product_id |-> Strip(product_id), name |-> name, category |-> category,
     cost_price |-> cost_price, sell_price |-> sell_price,
     stock_quantity |-> stock_quantity, min_threshold |-> min_threshold]

\* ProductManager._find_index_by_id: the first position holding the
\* identifier, 0 for Python's None.
_find_index_by_id(product_id) ==
    IF \E i \in 1..Len(products) : products[i].product_id = product_id
    THEN CHOOSE i \in 1..Len(products) :
            /\ products[i].product_id = product_id
            /\ \A j \in 1..(i - 1) : products[j].product_id # product_id
    ELSE 0

\* ProductManager._assert_unique_id: TRUE when it does not raise.
\* ignore_index is 0 when no position is ignored.
_assert_unique_id(product_id, ignore_index) ==
    \A i \in 1..Len(products) :
        i = ignore_index \/ products[i].product_id # product_id

\* ProductManager.list_products
list_products == products

RemoveAt(s, i) == SubSeq(s, 1, i - 1) \o SubSeq(s, i + 1, Len(s))

Returned(op, status, args, value) ==
    [op |-> op, status |-> status, args |-> args, value |-> value]

\* ProductManager.add_product.  The uniqueness test reads the identifier as
\* given; Product() strips it afterwards.
add_product(product_id, name, category, cost_price, sell_price, stock_quantity, min_threshold) ==
    LET args == [product_id |-> product_id, name |-> name] IN
    /\ Len(products) < MaxProducts
    /\ IF \/ Strip(name) = <<>>
          \/ ~is_valid_name(Strip(category))
          \/ ~_assert_unique_id(product_id, 0)
          \/ ~ProductValid(product_id, cost_price, sell_price,
                           stock_quantity, min_threshold)
       THEN /\ ret' = Returned("add_product", "ValueError", args, None)
            /\ UNCHANGED products
       ELSE /\ products' = Append(products,
                              Product(product_id, Strip(name), Strip(category),
                                      cost_price, sell_price, stock_quantity,
                                      min_threshold))
            /\ ret' = Returned("add_product", "ok", args, None)
    /\ UNCHANGED <<category_names, version, transactions, _index,
                   _index_version, env_vars>>

\* ProductManager.delete_product
delete_product(product_id) ==
    LET idx == _find_index_by_id(product_id)
        args == [product_id |-> product_id] IN
    /\ IF idx = 0
       THEN /\ ret' = Returned("delete_product", "ValueError", args, None)
            /\ UNCHANGED products
       ELSE /\ products' = RemoveAt(products, idx)
            /\ ret' = Returned("delete_product", "ok", args, None)
    /\ UNCHANGED <<category_names, version, transactions, _index,
                   _index_version, env_vars>>

\* ProductManager.update_product with one change, k = v, k being "name" or
\* "category": the value is stripped, a category that differs from the old
\* one must exist, and a new Product replaces the old one at its position.
update_product(product_id, k, v) ==
    LET idx == _find_index_by_id(product_id)
        args == [product_id |-> product_id, field |-> k, value |-> v] IN
    /\ IF idx = 0
       THEN /\ ret' = Returned("update_product", "ValueError", args, None)
            /\ UNCHANGED products
       ELSE LET old == products[idx]
                merged == [old EXCEPT ![k] = Strip(v)] IN
            IF \/ k \notin {"name", "category"}
               \/ Strip(merged.name) = <<>>
               \/ /\ inventory_normalize_name(merged.category)
                        # inventory_normalize_name(old.category)
                  /\ ~is_valid_name(merged.category)
            THEN /\ ret' = Returned("update_product", "ValueError", args, None)
                 /\ UNCHANGED products
            ELSE /\ products' = [products EXCEPT ![idx] = merged]
                 /\ ret' = Returned("update_product", "ok", args, None)
    /\ UNCHANGED <<category_names, version, transactions, _index,
                   _index_version, env_vars>>

\* ------------------------------------------------------------------------
\* SearchEngine: the index
\* ------------------------------------------------------------------------
DEFAULT_PER_PAGE == 20
DEFAULT_AUTOCOMPLETE_LIMIT == 8
DEFAULT_FUZZY_THRESHOLD == 70

\* One entry of SearchEngine._build_index.  "product" is the reference to the
\* Product; of its fields the entry keeps here the ones that search,
\* autocomplete and get_stock_alerts read.
IndexEntry(p) ==
    [product |-> [product_id |-> p.product_id, name |-> p.name,
                  category |-> p.category,
                  stock_quantity |-> p.stock_quantity,
                  min_threshold |-> p.min_threshold],
     product_id_norm  |-> normalize_name(p.product_id, FALSE),
     name_norm        |-> normalize_name(p.name, FALSE),
     category_norm    |-> normalize_name(p.category, FALSE),
     product_id_plain |-> normalize_name(p.product_id, TRUE),
     name_plain       |-> normalize_name(p.name, TRUE),
     category_plain   |-> normalize_name(p.category, TRUE)]

\* SearchEngine._index is None until the first build, then a list.
NoIndex == [is_none |-> TRUE, entries |-> <<>>]

\* SearchEngine._build_index: one entry per product of list_products().
_build_index ==
    [is_none |-> FALSE,
     entries |-> [i \in 1..Len(list_products) |-> IndexEntry(list_products[i])]]

\* An _ensure_index that builds on every call, onto the list it has.
IndexAfterEnsureAppending ==
    [is_none |-> FALSE, entries |-> _index.entries \o _build_index.entries]

\* SearchEngine._ensure_index: the index and the stored version after the
\* call.  It rebuilds when there is no index or the stored version differs
\* from the version read off the ProductManager.
IndexAfterEnsure ==
    IF _index.is_none \/ _index_version # version THEN _build_index ELSE _index

IndexVersionAfterEnsure ==
    IF _index.is_none \/ _index_version # version THEN version ELSE _index_version

\* ------------------------------------------------------------------------
\* SearchEngine: matching and ranking
\* ------------------------------------------------------------------------
\* SearchEngine._get_product_popularity: the number of EXPORT transactions of
\* the product, 0 without a TransactionManager.
_get_product_popularity(product_id) ==
    IF ~trans_mgr_attached THEN 0
    ELSE Cardinality({i \in 1..Len(transactions) :
                         /\ transactions[i].product_id = product_id
                         /\ transactions[i].trans_type = "EXPORT"})

\* SearchEngine._fuzzy_match: rapidfuzz's partial_ratio when the import
\* succeeded, the difflib fallback otherwise; either form passing counts.
_fuzzy_match(kw_norm, val_norm, kw_plain, val_plain) ==
    IF has_rapidfuzz
    THEN \/ PartialRatioAtLeast(kw_norm, val_norm, DEFAULT_FUZZY_THRESHOLD)
         \/ PartialRatioAtLeast(kw_plain, val_plain, DEFAULT_FUZZY_THRESHOLD)
    ELSE \/ _fuzzy_fallback(kw_norm, val_norm, DEFAULT_FUZZY_THRESHOLD)
         \/ _fuzzy_fallback(kw_plain, val_plain, DEFAULT_FUZZY_THRESHOLD)

NormOf(entry, f) ==
    CASE f = "product_id" -> entry.product_id_norm
      [] f = "name"       -> entry.name_norm
      [] f = "category"   -> entry.category_norm

PlainOf(entry, f) ==
    CASE f = "product_id" -> entry.product_id_plain
      [] f = "name"       -> entry.name_plain
      [] f = "category"   -> entry.category_plain

\* The tier one field of one entry falls in (sreach.py lines 133-140):
\* "prefix", "substring", "fuzzy", or "none" when the loop continues.
MatchType(entry, f, kw_norm, kw_plain, fuzzy) ==
    LET norm_val == NormOf(entry, f)
        plain_val == PlainOf(entry, f) IN
    IF StartsWith(norm_val, kw_norm) \/ StartsWith(plain_val, kw_plain)
    THEN "prefix"
    ELSE IF Contains(kw_norm, norm_val) \/ Contains(kw_plain, plain_val)
    THEN "substring"
    ELSE IF fuzzy /\ _fuzzy_match(kw_norm, norm_val, kw_plain, plain_val)
    THEN "fuzzy"
    ELSE "none"

\* A variant of BaseScore in which a substring match scores as a prefix match.
BaseScoreSubstringAsPrefix(match_type) ==
    CASE match_type = "prefix"    -> 300
      [] match_type = "substring" -> 300
      [] match_type = "fuzzy"     -> 100

\* The base score of a tier.
BaseScore(match_type) ==
    CASE match_type = "prefix"    -> 300
      [] match_type = "substring" -> 200
      [] match_type = "fuzzy"     -> 100

\* A variant of PopularityBoost without the cap of 50.
PopularityBoostUncapped(product_id) == _get_product_popularity(product_id)

\* The popularity boost added to the base score.
PopularityBoost(product_id) == Min(50, _get_product_popularity(product_id))

\* fields_to_check: the one field given, or list(allowed).
FieldsToCheck(field) ==
    IF field # None /\ field # "" THEN <<field>> ELSE field_order

\* The result of one entry: <<>> when the entry is filtered out by the
\* category or no field of fields_to_check qualifies, else the one record
\* appended for it: the first field that qualifies wins (the break at line
\* 153).
EntryResult(entry, field, category, kw_norm, kw_plain, fuzzy) ==
    LET p == entry.product
        fields == FieldsToCheck(field)
        types == [i \in 1..Len(fields) |->
                     MatchType(entry, fields[i], kw_norm, kw_plain, fuzzy)]
        Hits == {i \in 1..Len(fields) : types[i] # "none"}
    IN IF /\ category # None /\ category # <<>>
          /\ normalize_name(p.category, FALSE) # normalize_name(category, FALSE)
       THEN <<>>
       ELSE IF Hits = {} THEN <<>>
       ELSE LET i == CHOOSE h \in Hits : \A g \in Hits : h <= g
            IN << [product_id |-> p.product_id, name |-> p.name,
                   category |-> p.category, matched_field |-> fields[i],
                   match_type |-> types[i],
                   search_score |-> BaseScore(types[i])
                                      + PopularityBoost(p.product_id)] >>

\* The list "results" of search_products, in index order.
RECURSIVE CollectResults(_, _, _, _, _, _)
CollectResults(index, field, category, kw_norm, kw_plain, fuzzy) ==
    IF index = <<>> THEN <<>>
    ELSE EntryResult(Head(index), field, category, kw_norm, kw_plain, fuzzy)
         \o CollectResults(Tail(index), field, category, kw_norm, kw_plain, fuzzy)

\* The sort key (-search_score, product_id) of line 155, compared as Python
\* compares tuples.
\* A variant of the sort key that compares the score alone.
KeyLessScoreOnly(r1, r2) == r1.search_score > r2.search_score

KeyLess(r1, r2) ==
    \/ r1.search_score > r2.search_score
    \/ /\ r1.search_score = r2.search_score
       /\ StrLess(r1.product_id, r2.product_id)

\* sorted(): a stable sort, here by insertion after the elements that are
\* not greater.
InsertSorted(sorted, x) ==
    LET Later == {i \in 1..Len(sorted) : KeyLess(x, sorted[i])}
        pos == IF Later = {} THEN Len(sorted) + 1
               ELSE CHOOSE i \in Later : \A j \in Later : i <= j
    IN SubSeq(sorted, 1, pos - 1) \o <<x>> \o SubSeq(sorted, pos, Len(sorted))

RECURSIVE SortResults(_)
SortResults(results) ==
    IF results = <<>> THEN <<>>
    ELSE InsertSorted(SortResults(SubSeq(results, 1, Len(results) - 1)),
                      results[Len(results)])

\* Counter(r["category"] for r in results_sorted) as a dict.
Facets(results_sorted) ==
    [c \in {results_sorted[i].category : i \in 1..Len(results_sorted)} |->
        Cardinality({i \in 1..Len(results_sorted) : results_sorted[i].category = c})]

\* results_sorted[start:end] for 0 <= start, 0 <= end (0-based, end excluded).
Slice(seq, start, end) == SubSeq(seq, start + 1, Min(end, Len(seq)))

\* The page of lines 162-163.
Paginate(results_sorted, page, per_page) ==
    Slice(results_sorted, (page - 1) * per_page, (page - 1) * per_page + per_page)

EmptySearchResult == [results |-> <<>>, total |-> 0, facets |-> <<>>, ranked |-> <<>>]

\* A variant of SearchOver that counts the facets over the returned page.
SearchOverPageFacets(index, keyword, field, category, fuzzy, page, per_page) ==
    LET kw_norm == normalize_name(keyword, FALSE)
        kw_plain == _remove_accents(keyword)
        results_sorted ==
            SortResults(CollectResults(index, field, category, kw_norm,
                                       kw_plain, fuzzy))
    IN [results |-> Paginate(results_sorted, page, per_page),
        total |-> Len(results_sorted),
        facets |-> Facets(Paginate(results_sorted, page, per_page)),
        ranked |-> results_sorted]

\* What search_products returns over an index: results, total and facets,
\* with the whole sorted list (results_sorted) kept beside them as "ranked".
SearchOver(index, keyword, field, category, fuzzy, page, per_page) ==
    LET kw_norm == normalize_name(keyword, FALSE)
        kw_plain == _remove_accents(keyword)
        results_sorted ==
            SortResults(CollectResults(index, field, category, kw_norm,
                                       kw_plain, fuzzy))
    IN [results |-> Paginate(results_sorted, page, per_page),
        total |-> Len(results_sorted),
        facets |-> Facets(results_sorted),
        ranked |-> results_sorted]

\* A variant of FieldRejected that lets every field name through.
FieldRejectedNever(field) == FALSE

\* The test of line 118: a field that is given (truthy) and not allowed.
FieldRejected(field) == field # None /\ field # "" /\ field \notin AllowedFields

SearchArgs(keyword, field, category, fuzzy, page, per_page) ==
    [keyword |-> keyword, field |-> field, category |-> category,
     fuzzy |-> fuzzy, page |-> page, per_page |-> per_page]

\* SearchEngine.search_products, for page >= 1 and per_page >= 1.  An empty
\* keyword returns at once, before the index and the field are looked at.
search_products(keyword, field, category, fuzzy, page, per_page) ==
    LET args == SearchArgs(keyword, field, category, fuzzy, page, per_page) IN
    /\ IF keyword = <<>>
       THEN /\ ret' = Returned("search_products", "ok", args, EmptySearchResult)
            /\ UNCHANGED <<_index, _index_version>>
       ELSE /\ _index' = IndexAfterEnsure
            /\ _index_version' = IndexVersionAfterEnsure
            /\ IF FieldRejected(field)
               THEN ret' = Returned("search_products", "ValueError", args, None)
               ELSE ret' = Returned("search_products", "ok", args,
                                    SearchOver(IndexAfterEnsure.entries, keyword, field,
                                               category, fuzzy, page, per_page))
    /\ UNCHANGED <<category_names, products, version, transactions, env_vars>>

\* ------------------------------------------------------------------------
\* SearchEngine: autocomplete
\* ------------------------------------------------------------------------
\* getattr(entry["product"], field, "")
ProductField(p, f) ==
    CASE f = "product_id" -> p.product_id
      [] f = "name"       -> p.name
      [] f = "category"   -> p.category

\* The loop of autocomplete_products over the rest of the index, with the
\* suggestions found so far: a value is appended when it is new, and the
\* length is compared with the limit after every matching entry.
RECURSIVE Suggestions(_, _, _, _, _)
Suggestions(index, field, pref_norm, limit, found) ==
    IF index = <<>> THEN found
    ELSE LET val == ProductField(Head(index).product, field)
             val_norm == Lower(_remove_accents(val))
         IN IF val = <<>> \/ ~StartsWith(val_norm, pref_norm)
            THEN Suggestions(Tail(index), field, pref_norm, limit, found)
            ELSE LET next == IF \E i \in 1..Len(found) : found[i] = val
                             THEN found ELSE Append(found, val)
                 IN IF Len(next) >= limit THEN next
                    ELSE Suggestions(Tail(index), field, pref_norm, limit, next)

AutocompleteOver(index, prefix, field, limit) ==
    Suggestions(index, field, Strip(Lower(_remove_accents(prefix))), limit, <<>>)

\* SearchEngine.autocomplete_products.  An empty prefix returns at once,
\* before the index and the field are looked at.
autocomplete_products(prefix, field, limit) ==
    LET args == [prefix |-> prefix, field |-> field, limit |-> limit] IN
    /\ IF prefix = <<>>
       THEN /\ ret' = Returned("autocomplete_products", "ok", args, <<>>)
            /\ UNCHANGED <<_index, _index_version>>
       ELSE /\ _index' = IndexAfterEnsure
            /\ _index_version' = IndexVersionAfterEnsure
            /\ IF field \notin AllowedFields
               THEN ret' = Returned("autocomplete_products", "ValueError", args, None)
               ELSE ret' = Returned("autocomplete_products", "ok", args,
                                    AutocompleteOver(IndexAfterEnsure.entries, prefix,
                                                     field, limit))
    /\ UNCHANGED <<category_names, products, version, transactions, env_vars>>

\* ------------------------------------------------------------------------
\* Spec: the catalog under add, update and delete, with searches in between
\* ------------------------------------------------------------------------
NoCall == Returned("none", "ok", None, None)

\* The environments a process can run in.
EnvInit ==
    /\ trans_mgr_attached \in BOOLEAN
    /\ has_rapidfuzz \in BOOLEAN
    /\ has_unidecode \in BOOLEAN
    /\ field_order \in FieldOrders

\* Inputs of the catalog operations.
IdInputs == {<<"a", "1">>, <<"b", "2">>, <<" ", "a", "1">>}
NameInputs == {<<"a", "b">>, <<"b">>, <<>>}
CategoryInputs == {<<"c">>, <<"b">>}
CatalogKeywords == {<<"a">>, <<>>}

\* ProductManager, TransactionManager and SearchEngine just constructed over
\* storage files that do not exist yet, with one category added.
Init ==
    /\ category_names = << <<"c">> >>
    /\ products = <<>>
    /\ version = Absent
    /\ transactions = <<>>
    /\ _index = NoIndex
    /\ _index_version = Absent
    /\ EnvInit
    /\ ret = NoCall

\* The program is single-threaded: a call starts when the previous one has
\* returned to its caller.
Idle == ret.op = "none"

\* The caller takes the result of the call.
Return ==
    /\ ~Idle
    /\ ret' = NoCall
    /\ UNCHANGED <<category_names, products, version, transactions, _index,
                   _index_version, env_vars>>

AddProduct ==
    /\ Idle
    /\ \E id \in IdInputs, name \in NameInputs, category \in CategoryInputs :
          add_product(id, name, category, 1, 2, 1, 1)

UpdateProduct ==
    /\ Idle
    /\ \E id \in IdInputs, name \in NameInputs : update_product(id, "name", name)

DeleteProduct == Idle /\ \E id \in IdInputs : delete_product(id)

SearchProducts ==
    /\ Idle
    /\ \E keyword \in CatalogKeywords :
          search_products(keyword, None, None, TRUE, 1, DEFAULT_PER_PAGE)

AutocompleteProducts ==
    /\ Idle
    /\ autocomplete_products(<<"a">>, "name", DEFAULT_AUTOCOMPLETE_LIMIT)

Next ==
    \/ AddProduct
    \/ UpdateProduct
    \/ DeleteProduct
    \/ SearchProducts
    \/ AutocompleteProducts
    \/ Return

Spec == Init /\ [][Next]_vars

\* ------------------------------------------------------------------------
\* Transactions
\* ------------------------------------------------------------------------
\* The clock reading, in hours since the epoch (UTC).
Now == 10 * 24

\* Offset of a timezone from UTC in hours; VN_TZ is UTC+7.
TzOffset(tz) == IF tz = "VN" THEN 7 ELSE 0

\* datetime.now(VN_TZ)
NowVN == [wall |-> Now + TzOffset("VN"), tz |-> "VN"]

\* A Transaction after __post_init__: the type is upper-case IMPORT or
\* EXPORT, the quantity is > 0 and the date is timezone-aware.
Transaction(product_id, trans_type, quantity, date) ==
    [product_id |-> Strip(product_id), trans_type |-> trans_type,
     quantity |-> quantity, date |-> date]

\* ------------------------------------------------------------------------
\* SpecSearch: search_products and autocomplete_products over the catalogs,
\* ledgers and arguments below
\* ------------------------------------------------------------------------
CatC == <<"c">>
CatAb == <<"A", " ", "b">>

SearchProductPool ==
    {Product(<<"a", "1">>, <<"a", "b">>, CatC, 1, 2, 2, 1),
     Product(<<"b", "2">>, <<"c", "a", "b">>, CatC, 1, 2, 1, 1),
     Product(<<"a", "2">>, <<"a'", "c", "b">>, CatAb, 1, 2, 1, 1)}

\* The catalogs add_product can have built from the pool: identifiers are
\* unique.
SearchCatalogs ==
    UNION {{c \in [1..n -> SearchProductPool] :
               \A i, j \in 1..n : i # j => c[i].product_id # c[j].product_id}
           : n \in 0..MaxCatalog}

SearchLedgers ==
    {<<>>,
     <<Transaction(<<"b", "2">>, "EXPORT", 1, NowVN),
       Transaction(<<"a", "1">>, "IMPORT", 1, NowVN)>>}

SearchKeywords ==
    {<<>>, <<"a">>, <<"a", "b">>, <<" ", "A">>, <<"a", "b", "c">>, <<"a'">>}
FieldArgs == {None, "", "product_id", "name", "category", "price"}
CategoryArgs == {CatC, <<" ", "c">>}
PagedKeywords == {<<"a">>, <<"a", "b">>}
PageArgs == {1, 2}
PerPageArgs == {1, 2}
PrefixArgs == {<<>>, <<"a">>, <<" ", "A">>, <<" ">>}
LimitArgs == {0, 1, 2}

\* A catalog built by add_product and a ledger loaded from its file, before
\* the first search.
InitSearch ==
    /\ category_names = <<CatC, CatAb>>
    /\ products \in SearchCatalogs
    /\ version = Absent
    /\ transactions \in SearchLedgers
    /\ _index = NoIndex
    /\ _index_version = Absent
    /\ trans_mgr_attached = TRUE
    /\ has_rapidfuzz \in BOOLEAN
    /\ has_unidecode \in BOOLEAN
    /\ field_order \in FieldOrders
    /\ ret = NoCall

SearchAnyField ==
    /\ Idle
    /\ \E keyword \in SearchKeywords, field \in FieldArgs, fuzzy \in BOOLEAN :
          search_products(keyword, field, None, fuzzy, 1, DEFAULT_PER_PAGE)

SearchInCategory ==
    /\ Idle
    /\ \E keyword \in PagedKeywords, category \in CategoryArgs :
          search_products(keyword, None, category, TRUE, 1, DEFAULT_PER_PAGE)

SearchAnyPage ==
    /\ Idle
    /\ \E keyword \in PagedKeywords, page \in PageArgs, per_page \in PerPageArgs :
          search_products(keyword, None, None, TRUE, page, per_page)

AutocompleteAny ==
    /\ Idle
    /\ \E prefix \in PrefixArgs, field \in FieldArgs, limit \in LimitArgs :
          autocomplete_products(prefix, field, limit)

NextSearch ==
    \/ SearchAnyField
    \/ SearchInCategory
    \/ SearchAnyPage
    \/ AutocompleteAny

SpecSearch == InitSearch /\ [][NextSearch]_vars

\* ------------------------------------------------------------------------
\* Claims on the catalog and the index (Spec)
\* ------------------------------------------------------------------------
IsSearch == ret.op = "search_products" /\ ret.status = "ok"

\* C1: index freshness.  Every search_products call with a keyword is
\* computed over exactly the products list_products() returns at that moment,
\* also after an add, update or delete that followed an earlier search: the
\* index the call leaves is the index of the current catalog and its result
\* is the result over that index.
C1_SearchSeesCurrentCatalog ==
    (IsSearch /\ ret.args.keyword # <<>>) =>
        /\ _index = _build_index
        /\ ret.value = SearchOver(_build_index.entries, ret.args.keyword,
                                  ret.args.field, ret.args.category,
                                  ret.args.fuzzy, ret.args.page,
                                  ret.args.per_page)

\* A successful add_product, update_product or delete_product step.
CatalogChangeStep ==
    /\ ret'.op \in {"add_product", "update_product", "delete_product"}
    /\ ret'.status = "ok"
    /\ <<products, ret>> # <<products', ret'>>

\* C2: the ProductManager has a version counter that goes up by exactly 1 on
\* every successful add_product, update_product and delete_product and never
\* goes down.
C2_VersionCounts ==
    [][/\ version.present => (version'.present /\ version'.value >= version.value)
       /\ CatalogChangeStep =>
             /\ version.present
             /\ version'.present
             /\ version'.value = version.value + 1]_vars

\* ------------------------------------------------------------------------
\* The ledger: TransactionManager.add_transaction (SpecPop)
\* ------------------------------------------------------------------------
LoadedTx == 49

\* str(trans_type).upper() on the type names the callers pass.
UpperType(trans_type) ==
    CASE trans_type = "import" -> "IMPORT"
      [] trans_type = "export" -> "EXPORT"
      [] trans_type = "sale" -> "SALE"
      [] trans_type = "out" -> "OUT"
      [] OTHER -> trans_type

\* A stock change that is never refused.
adjust_stock_unchecked(p, delta) == TRUE

\* Product.adjust_stock: whether the change is accepted, and the product
\* after it.
adjust_stock_ok(p, delta) == p.stock_quantity + delta >= 0

adjust_stock(p, delta) == [p EXCEPT !.stock_quantity = @ + delta]

\* ProductManager.apply_stock_change as add_transaction uses it: the change
\* is made by the product's adjust_stock.
apply_stock_change(prods, product_id, delta) ==
    LET idx == _find_index_by_id(product_id)
    IN [prods EXCEPT ![idx] = adjust_stock(@, delta)]

\* The index after a stock change made in place: its entries refer to the
\* Product objects of the catalog, and where the ledger is written no
\* product is replaced, so the entry of the identifier is the changed object.
adjust_indexed(index, product_id, delta) ==
    [index EXCEPT !.entries =
        [i \in 1..Len(index.entries) |->
            IF index.entries[i].product.product_id = product_id
            THEN [index.entries[i] EXCEPT !.product.stock_quantity = @ + delta]
            ELSE index.entries[i]]]

\* The in-memory list after a failed save when the rollback is skipped.
TransactionsKept(appended, tx) == appended

\* The rollback of the in-memory list after a failed save:
\* self.transactions.remove(tx) takes out the transaction just appended
\* (its identifier is fresh, so no earlier element equals it).
RollbackTransactions(appended, tx) == SubSeq(appended, 1, Len(appended) - 1)

\* TransactionManager.add_transaction.  save_ok is whether
\* _save_transactions succeeds; when it fails the stock change and the
\* append are undone before the error is raised again (the transaction
\* removed is the one just appended: its identifier is fresh).
add_transaction(product_id, trans_type, quantity, save_ok) ==
    LET trans_type_u == UpperType(trans_type)
        args == [product_id |-> product_id, trans_type |-> trans_type,
                 quantity |-> quantity]
        idx == _find_index_by_id(product_id)
        delta == IF trans_type_u = "IMPORT" THEN quantity ELSE -quantity
        tx == Transaction(product_id, trans_type_u, quantity, NowVN)
    IN
    /\ Len(transactions) < LoadedTx + MaxTx
    /\ IF \/ trans_type_u \notin {"IMPORT", "EXPORT"}
          \/ quantity <= 0
          \/ idx = 0
          \/ ~adjust_stock_ok(products[idx], delta)
       THEN /\ ret' = Returned("add_transaction", "ValueError", args, None)
            /\ UNCHANGED <<products, transactions, _index>>
       ELSE IF save_ok
       THEN /\ products' = apply_stock_change(products, product_id, delta)
            /\ _index' = adjust_indexed(_index, product_id, delta)
            /\ transactions' = Append(transactions, tx)
            /\ ret' = Returned("add_transaction", "ok", args, tx)
       ELSE LET changed == apply_stock_change(products, product_id, delta)
                appended == Append(transactions, tx)
            IN /\ products' = apply_stock_change(changed, product_id, -delta)
               /\ _index' = adjust_indexed(adjust_indexed(_index, product_id, delta),
                                           product_id, -delta)
               /\ transactions' = RollbackTransactions(appended, tx)
               /\ ret' = Returned("add_transaction", "OSError", args, None)
    /\ UNCHANGED <<category_names, version, _index_version, env_vars>>

\* The rows of the storage file read by _load_transactions: LoadedTx
\* transactions of one type for the product a1.
LoadedLedger(trans_type) ==
    [i \in 1..LoadedTx |->
        Transaction(<<"a", "1">>, trans_type, 1, [wall |-> Now - 24, tz |-> "UTC"])]

PopCatalog ==
    << Product(<<"a", "1">>, <<"a", "b">>, CatC, 1, 2, 2, 1),
       Product(<<"b", "2">>, <<"c", "a", "b">>, CatC, 1, 2, 0, 1) >>

TypeArgs == {"IMPORT", "export", "sale"}
QuantityArgs == {0, 1}
TxProductArgs == {<<"a", "1">>, <<"b", "2">>, <<"a", "2">>}

\* A catalog of two products and a ledger loaded from its file; the search
\* engine is constructed with or without the transaction manager.
InitPop ==
    /\ category_names = <<CatC>>
    /\ products = PopCatalog
    /\ version = Absent
    /\ transactions \in {LoadedLedger("EXPORT"), LoadedLedger("IMPORT")}
    /\ _index = NoIndex
    /\ _index_version = Absent
    /\ EnvInit
    /\ ret = NoCall

AddTransaction ==
    /\ Idle
    /\ \E product_id \in TxProductArgs, trans_type \in TypeArgs,
          quantity \in QuantityArgs, save_ok \in BOOLEAN :
          add_transaction(product_id, trans_type, quantity, save_ok)

SearchPopular ==
    /\ Idle
    /\ \E keyword \in {<<"a">>, <<"b">>} :
          search_products(keyword, None, None, TRUE, 1, DEFAULT_PER_PAGE)

NextPop ==
    \/ AddTransaction
    \/ SearchPopular
    \/ Return

SpecPop == InitPop /\ [][NextPop]_vars

\* ------------------------------------------------------------------------
\* The category list under removals, with products being added
\* (SpecCategories)
\* ------------------------------------------------------------------------
\* CategoryManager.remove_category.  The first stored name that matches is
\* removed and True returned, False when no name matches; the products of
\* the catalog are not consulted.  save_ok is whether save() succeeds (it is
\* not called without a storage path); when it fails the removal stays and
\* the error is raised.
remove_category(name, save_ok) ==
    LET args == [name |-> name, save_ok |-> save_ok]
        at == FirstCategoryNamed(name)
    IN
    /\ IF at = 0
       THEN /\ ret' = Returned("remove_category", "ok", args, FALSE)
            /\ UNCHANGED category_names
       ELSE /\ category_names' = [i \in 1..(Len(category_names) - 1) |->
                                     IF i < at THEN category_names[i]
                                     ELSE category_names[i + 1]]
            /\ ret' = IF save_ok
                      THEN Returned("remove_category", "ok", args, TRUE)
                      ELSE Returned("remove_category", "OSError", args, None)
    /\ UNCHANGED <<products, version, transactions, _index, _index_version, env_vars>>

CategoryNameArgs == {CatC, <<" ", "C">>, CatAb, <<"x">>}

\* Two categories stored and an empty catalog.
InitCategories ==
    /\ category_names = <<CatC, CatAb>>
    /\ products = <<>>
    /\ version = Absent
    /\ transactions = <<>>
    /\ _index = NoIndex
    /\ _index_version = Absent
    /\ trans_mgr_attached = FALSE
    /\ has_rapidfuzz = FALSE
    /\ has_unidecode = FALSE
    /\ field_order = <<"product_id", "name", "category">>
    /\ ret = NoCall

AddCategorized ==
    /\ Idle
    /\ \E id \in {<<"a", "1">>, <<"b", "2">>}, category \in {CatC, CatAb} :
          add_product(id, <<"a", "b">>, category, 1, 2, 1, 1)

RemoveCategory ==
    /\ Idle
    /\ \E name \in CategoryNameArgs, save_ok \in BOOLEAN :
          remove_category(name, save_ok)

NextCategories ==
    \/ AddCategorized
    \/ RemoveCategory
    \/ Return

SpecCategories == InitCategories /\ [][NextCategories]_vars

\* ------------------------------------------------------------------------
\* report.py: compute_sale_rates and generate_low_stock_alerts (SpecRates)
\* ------------------------------------------------------------------------
DEFAULT_LOOKBACK_DAYS == 30
PREDICT_SOON_DAYS == 7

\* A date that is None, and a date string that fromisoformat cannot parse.
NoDate == [wall |-> 0, tz |-> None]
BadDate == [wall |-> 0, tz |-> "<bad>"]

\* safe_get on a record that is not None: dict.get for a mapping, getattr
\* for an object; both give the default when the name is missing.
safe_get(obj, attr, default) == IF attr \in DOMAIN obj THEN obj[attr] ELSE default

\* parse_iso_datetime(value, default_now=False) on a value that parses: a
\* naive datetime is taken as UTC, an aware one is kept.
parse_iso_datetime(value) ==
    IF value.tz = "naive" THEN [wall |-> value.wall, tz |-> "UTC"] ELSE value

\* The instant of an aware datetime, in hours.
Instant(dt) == dt.wall - TzOffset(dt.tz)

\* round(n / d, 0) for d > 0, ties to the even neighbour.
RoundHalfEven(n, d) ==
    LET q == n \div d
        r == n % d
    IN IF 2 * r > d \/ (2 * r = d /\ q % 2 = 1) THEN q + 1 ELSE q

\* The filters of the loop of compute_sale_rates, one record at a time.
TypeCounted(t) == UpperType(safe_get(t, "type", "OUT")) \in {"OUT", "EXPORT"}

PidOf(t) ==
    IF "product_id" \in DOMAIN t THEN Strip(t.product_id) ELSE <<>>

PidCounted(t, pid_set) ==
    /\ PidOf(t) # <<>>
    /\ pid_set = {} \/ PidOf(t) \in pid_set

\* The records whose date is parsed.
DateParsed(t, pid_set) == TypeCounted(t) /\ PidCounted(t, pid_set)

InWindow(t, lookback_days) ==
    LET date == safe_get(t, "date", NoDate) IN
    /\ date # NoDate
    /\ Instant(parse_iso_datetime(date)) >= Now - 24 * lookback_days

\* product_ids: None, one identifier, or an iterable of identifiers; value
\* holds the identifiers as a set (pid_set).
ProductIds(kind, value) == [kind |-> kind, value |-> value]
AllProducts == ProductIds("None", {})
PidSet(product_ids) == product_ids.value

\* compute_sale_rates: status and value.  Rates are in hundredths.
compute_sale_rates(txs, product_ids, lookback_days) ==
    LET pid_set == PidSet(product_ids)
        Added == {i \in 1..Len(txs) :
                     /\ DateParsed(txs[i], pid_set)
                     /\ InWindow(txs[i], lookback_days)}
        totals == [pid \in {PidOf(txs[i]) : i \in Added} |->
                      SumSeq([k \in 1..Len(txs) |->
                                 IF k \in Added /\ PidOf(txs[k]) = pid
                                 THEN safe_get(txs[k], "quantity", 0) ELSE 0])]
        rates == [pid \in DOMAIN totals |->
                     RoundHalfEven(100 * totals[pid], Max(1, lookback_days))]
    IN IF \E i \in 1..Len(txs) :
             DateParsed(txs[i], pid_set) /\ safe_get(txs[i], "date", NoDate) = BadDate
       THEN [status |-> "ValueError", value |-> None]
       ELSE IF product_ids.kind = "str"
       THEN [status |-> "ok",
             value |-> LET pid == CHOOSE x \in product_ids.value : TRUE
                       IN IF pid \in DOMAIN rates THEN rates[pid] ELSE 0]
       ELSE [status |-> "ok", value |-> rates]

\* The field "needed" of an item.
NeededRawBuffer(qty, min_thr, reorder_buffer) ==
    IF qty < min_thr THEN Max(0, (min_thr - qty) + reorder_buffer) ELSE 0

NeededQuantity(qty, min_thr, reorder_buffer) ==
    IF qty < min_thr THEN Max(0, (min_thr - qty) + Max(0, reorder_buffer)) ELSE 0

\* round(days_left, 2) in hundredths of a day when the item gets the keys
\* days_until_stockout and predicted_out_soon: the rate is not zero and is
\* positive, and days_left = qty / rate is not zero.
DaysLeftWithoutRate(qty, rate) ==
    IF qty > 0
    THEN Present(IF rate > 0 THEN RoundHalfEven(10000 * qty, rate) ELSE 0)
    ELSE Absent

DaysLeft(qty, rate) ==
    IF rate # 0 /\ rate > 0 /\ qty # 0
    THEN Present(RoundHalfEven(10000 * qty, rate))
    ELSE Absent

\* One item of generate_low_stock_alerts for a product, with the forecast
\* fields when the product has a non-zero rate.  Rates and days are in
\* hundredths; the item has the key predicted_out_soon exactly when it has
\* days_until_stockout (the two are set together).
AlertItem(p, sale_rates, reorder_buffer) ==
    LET qty == p.stock_quantity
        min_thr == p.min_threshold
        rate == IF p.product_id \in DOMAIN sale_rates
                THEN sale_rates[p.product_id] ELSE 0
        days_left == DaysLeft(qty, rate)
    IN [product_id |-> p.product_id, name |-> p.name, category |-> p.category,
        stock_quantity |-> qty, min_threshold |-> min_thr,
        needed |-> NeededQuantity(qty, min_thr, reorder_buffer),
        daily_sale_rate |-> IF rate # 0 THEN Present(rate) ELSE Absent,
        days_until_stockout |-> days_left,
        predicted_out_soon |->
            days_left.present /\ 100 * qty <= PREDICT_SOON_DAYS * rate]

IsOutOfStock(item, include_out_of_stock) ==
    item.stock_quantity = 0 /\ include_out_of_stock

IsLowStock(item, include_out_of_stock, include_low_stock) ==
    /\ ~IsOutOfStock(item, include_out_of_stock)
    /\ 0 < item.stock_quantity
    /\ item.stock_quantity <= item.min_threshold
    /\ include_low_stock

\* generate_low_stock_alerts over the catalog and the ledger; has_tm is
\* whether a transaction manager was passed.
generate_low_stock_alerts(has_tm, include_out_of_stock, include_low_stock, reorder_buffer, lookback_days) ==
    LET transactions_all == IF has_tm THEN transactions ELSE <<>>
        sale_rates ==
            IF transactions_all # <<>>
            THEN compute_sale_rates(transactions_all, AllProducts,
                                    lookback_days).value
            ELSE <<>>
        items == [i \in 1..Len(products) |->
                     AlertItem(products[i], sale_rates, reorder_buffer)]
        Out(item) == IsOutOfStock(item, include_out_of_stock)
        Low(item) == IsLowStock(item, include_out_of_stock, include_low_stock)
        out_of_stock == SelectSeq(items, Out)
        low_stock == SelectSeq(items, Low)
    IN [generated_at |-> NowVN,
        out_of_stock |-> out_of_stock,
        low_stock |-> low_stock,
        total_needed |->
            SumSeq([i \in 1..Len(items) |->
                       IF Out(items[i]) \/ Low(items[i])
                       THEN items[i].needed ELSE 0]),
        by_category |->
            [c \in {items[i].category : i \in 1..Len(items)} |->
                [out_of_stock |->
                     Cardinality({i \in 1..Len(items) :
                                     items[i].category = c /\ Out(items[i])}),
                 low_stock |->
                     Cardinality({i \in 1..Len(items) :
                                     items[i].category = c /\ Low(items[i])})]]]

\* The defaults of _suggest_order_quantity: days and lead_time_days.
SUGGEST_DAYS == 30
SUGGEST_LEAD_TIME_DAYS == 7

\* int(n / d) for d > 0: the quotient cut towards zero.
TruncDiv(n, d) == IF n >= 0 THEN n \div d ELSE -((-n) \div d)

\* The least of a non-empty set of integers.
MinOf(S) == CHOOSE x \in S : \A y \in S : x <= y

\* The advisor without the final max(0, ...).
SuggestedUnclamped(p, days, lead_time_days) ==
    LET fallback == Max(0, p.min_threshold - p.stock_quantity)
        Txs == {i \in 1..Len(transactions) :
                   /\ transactions[i].product_id = p.product_id
                   /\ transactions[i].trans_type = "EXPORT"
                   /\ transactions[i].date # NoDate
                   /\ Instant(transactions[i].date) >= Now - 24 * days}
        total_sold == SumSeq([i \in 1..Len(transactions) |->
                                 IF i \in Txs THEN transactions[i].quantity ELSE 0])
        actual_days ==
            Max(1, (Now - MinOf({Instant(transactions[i].date) : i \in Txs})) \div 24)
        safety == Max(1, TruncDiv(total_sold * lead_time_days, 5 * actual_days))
    IN IF ~trans_mgr_attached \/ Txs = {} THEN fallback
       ELSE TruncDiv(total_sold * lead_time_days + safety * actual_days, actual_days)
               - p.stock_quantity

\* SearchEngine._suggest_order_quantity over the ledger.  total_sold /
\* actual_days is kept as a fraction, so 0.2 * avg_per_day * lead_time_days
\* is total_sold * lead_time_days / (5 * actual_days); timedelta.days is the
\* number of whole days, rounded down.
_suggest_order_quantity(p, days, lead_time_days) ==
    LET fallback == Max(0, p.min_threshold - p.stock_quantity)
        cutoff == Now - 24 * days
        Txs == {i \in 1..Len(transactions) :
                   /\ transactions[i].product_id = p.product_id
                   /\ transactions[i].trans_type = "EXPORT"
                   /\ transactions[i].date # NoDate
                   /\ Instant(transactions[i].date) >= cutoff}
        total_sold == SumSeq([i \in 1..Len(transactions) |->
                                 IF i \in Txs THEN transactions[i].quantity ELSE 0])
        earliest == MinOf({Instant(transactions[i].date) : i \in Txs})
        actual_days == Max(1, (Now - earliest) \div 24)
        safety == Max(1, TruncDiv(total_sold * lead_time_days, 5 * actual_days))
        reorder_point == TruncDiv(total_sold * lead_time_days + safety * actual_days,
                                  actual_days)
        suggested == reorder_point - p.stock_quantity
    IN IF ~trans_mgr_attached THEN fallback
       ELSE IF Txs = {} THEN fallback
       ELSE Max(0, suggested)

\* The calls, with what they were given kept in ret.args.
SuggestOrderQuantity(p, days, lead_time_days) ==
    /\ ret' = Returned("_suggest_order_quantity", "ok",
                       [p |-> p, days |-> days, lead_time_days |-> lead_time_days],
                       _suggest_order_quantity(p, days, lead_time_days))
    /\ UNCHANGED <<category_names, products, version, transactions, _index,
                   _index_version, env_vars>>

ComputeSaleRates(txs, product_ids, lookback_days) ==
    LET out == compute_sale_rates(txs, product_ids, lookback_days) IN
    /\ ret' = Returned("compute_sale_rates", out.status,
                       [transactions |-> txs, product_ids |-> product_ids,
                        lookback_days |-> lookback_days], out.value)
    /\ UNCHANGED <<category_names, products, version, transactions, _index,
                   _index_version, env_vars>>

GenerateLowStockAlerts(has_tm, include_out_of_stock, include_low_stock, reorder_buffer, lookback_days) ==
    /\ ret' = Returned("generate_low_stock_alerts", "ok",
                       [has_tm |-> has_tm,
                        include_out_of_stock |-> include_out_of_stock,
                        include_low_stock |-> include_low_stock,
                        reorder_buffer |-> reorder_buffer,
                        lookback_days |-> lookback_days],
                       generate_low_stock_alerts(has_tm, include_out_of_stock,
                                                 include_low_stock,
                                                 reorder_buffer, lookback_days))
    /\ UNCHANGED <<category_names, products, version, transactions, _index,
                   _index_version, env_vars>>

\* datetime objects in and out of the windows of one day and of
\* DEFAULT_LOOKBACK_DAYS days, one of them after now.
Aware(wall, tz) == [wall |-> wall, tz |-> tz]

\* The Transaction objects a ledger can hold.
LedgerTx ==
    {Transaction(id, type, 1, Aware(Now - 12, "UTC")) :
        id \in {<<"a", "1">>, <<"b", "2">>}, type \in {"IMPORT", "EXPORT"}}
    \cup {Transaction(<<"a", "1">>, type, 3, Aware(Now - 48, "UTC")) :
            type \in {"IMPORT", "EXPORT"}}
    \cup {Transaction(<<"b", "2">>, "EXPORT", 3, Aware(Now - 20, "VN"))}
    \cup {Transaction(<<"b", "2">>, "EXPORT", 1, Aware(Now + 24, "UTC"))}

\* Loose mappings as callers build them: with or without a "type" key, a
\* date that may be naive, missing, None or unparsable.
LooseTx ==
    {[type |-> "IMPORT", product_id |-> <<"a", "1">>, quantity |-> 2,
      date |-> Aware(Now - 12, "naive")],
     [type |-> "export", product_id |-> <<"a", "1">>, quantity |-> 2,
      date |-> Aware(Now - 12, "naive")],
     [type |-> "OUT", product_id |-> <<"a", "1">>, quantity |-> 1,
      date |-> Aware(Now - 29, "naive")],
     [type |-> "EXPORT", product_id |-> <<"a", "1">>, quantity |-> 1,
      date |-> Aware(Now - 21, "naive")],
     [type |-> "EXPORT", product_id |-> <<"a", "1">>, quantity |-> 1,
      date |-> Aware(Now - 21, "VN")],
     [type |-> "EXPORT", product_id |-> <<"a", "1">>, quantity |-> 2,
      date |-> NoDate],
     [type |-> "EXPORT", product_id |-> <<"a", "1">>, quantity |-> 2,
      date |-> BadDate],
     [type |-> "IMPORT", product_id |-> <<"a", "1">>, quantity |-> 2,
      date |-> BadDate],
     [product_id |-> <<" ", "b", "2">>, quantity |-> 1,
      date |-> Aware(Now - 12, "UTC")],
     [type |-> "EXPORT", quantity |-> 1, date |-> Aware(Now - 12, "UTC")],
     Transaction(<<"a", "1">>, "IMPORT", 1, NowVN)}

ProductIdsArgs ==
    {AllProducts, ProductIds("str", {<<"a", "1">>}),
     ProductIds("list", {<<"b", "2">>})}
LookbackArgs == {1, DEFAULT_LOOKBACK_DAYS}
LeadTimeArgs == {-1, 7}
BufferArgs == {-1, 0, 1}
\* With 400 days a single sale gives a rate that rounds to 0.0.
AlertLookbackArgs == LookbackArgs \cup {400}

RatesCatalog ==
    << Product(<<"a", "1">>, <<"a", "b">>, CatC, 1, 2, 0, 1),
       Product(<<"b", "2">>, <<"c", "a", "b">>, CatAb, 1, 2, 1, 2) >>

\* A catalog and a ledger of at most MaxTx transactions loaded from storage.
InitRates ==
    /\ category_names = <<CatC, CatAb>>
    /\ products = RatesCatalog
    /\ version = Absent
    /\ transactions \in UNION {[1..n -> LedgerTx] : n \in 0..MaxTx}
    /\ _index = NoIndex
    /\ _index_version = Absent
    /\ trans_mgr_attached \in BOOLEAN
    /\ has_rapidfuzz = FALSE
    /\ has_unidecode = FALSE
    /\ field_order = <<"product_id", "name", "category">>
    /\ ret = NoCall

RatesOfLedger ==
    /\ Idle
    /\ \E product_ids \in ProductIdsArgs, lookback_days \in LookbackArgs :
          ComputeSaleRates(transactions, product_ids, lookback_days)

RatesOfMappings ==
    /\ Idle
    /\ \E t1 \in LooseTx, t2 \in LooseTx, lookback_days \in LookbackArgs :
          ComputeSaleRates(<<t1, t2>>, AllProducts, lookback_days)

LowStockAlerts ==
    /\ Idle
    /\ \E has_tm \in BOOLEAN, include_out_of_stock \in BOOLEAN,
          include_low_stock \in BOOLEAN, reorder_buffer \in BufferArgs,
          lookback_days \in AlertLookbackArgs :
          GenerateLowStockAlerts(has_tm, include_out_of_stock, include_low_stock,
                                 reorder_buffer, lookback_days)

SuggestOrder ==
    /\ Idle
    /\ \E i \in 1..Len(products), days \in LookbackArgs,
          lead_time_days \in LeadTimeArgs :
          SuggestOrderQuantity(products[i], days, lead_time_days)

NextRates ==
    \/ RatesOfLedger
    \/ RatesOfMappings
    \/ LowStockAlerts
    \/ SuggestOrder

SpecRates == InitRates /\ [][NextRates]_vars

\* ------------------------------------------------------------------------
\* SpecAlerts: the stock alerts of the search engine and of the report, and
\* searches, over a catalog that grows
\* ------------------------------------------------------------------------
\* The dictionary get_stock_alerts builds for a product: of to_dict it keeps
\* the fields the index entry holds; Product has no stock_status method, so
\* the status is the default "N/A"; suggested_order is set when asked for
\* and a TransactionManager is attached.
StockAlertData(p, suggest_order) ==
    [product_id |-> p.product_id, name |-> p.name, category |-> p.category,
     stock_quantity |-> p.stock_quantity, min_threshold |-> p.min_threshold,
     stock_status |-> "N/A",
     need_to_order |-> Max(0, p.min_threshold - p.stock_quantity),
     suggested_order |->
         IF suggest_order /\ trans_mgr_attached
         THEN Present(_suggest_order_quantity(p, SUGGEST_DAYS, SUGGEST_LEAD_TIME_DAYS))
         ELSE Absent]

EngineOutOfStock(pdata) == pdata.stock_quantity <= 0

EngineLowStock(pdata) ==
    ~EngineOutOfStock(pdata) /\ pdata.stock_quantity <= pdata.min_threshold

\* SearchEngine.get_stock_alerts: the index is ensured, then its products
\* are classified.
get_stock_alerts(suggest_order) ==
    LET index == IndexAfterEnsure
        pdatas == [i \in 1..Len(index.entries) |->
                      StockAlertData(index.entries[i].product, suggest_order)]
    IN /\ _index' = index
       /\ _index_version' = IndexVersionAfterEnsure
       /\ ret' = Returned("get_stock_alerts", "ok",
                          [suggest_order |-> suggest_order],
                          [out_of_stock |-> SelectSeq(pdatas, EngineOutOfStock),
                           low_stock |-> SelectSeq(pdatas, EngineLowStock),
                           total_to_order |->
                               SumSeq([i \in 1..Len(pdatas) |->
                                          pdatas[i].need_to_order])])
       /\ UNCHANGED <<category_names, products, version, transactions, env_vars>>

StockArgs == {0, 1, 3}

\* The managers and the engine just constructed, with one category, no
\* product yet, and a ledger that is empty or holds one sale.
InitAlerts ==
    /\ category_names = <<CatC>>
    /\ products = <<>>
    /\ version = Absent
    /\ transactions \in
          {<<>>, <<Transaction(<<"a", "1">>, "EXPORT", 3, Aware(Now - 48, "UTC"))>>}
    /\ _index = NoIndex
    /\ _index_version = Absent
    /\ trans_mgr_attached \in BOOLEAN
    /\ has_rapidfuzz = FALSE
    /\ has_unidecode = FALSE
    /\ field_order = <<"product_id", "name", "category">>
    /\ ret = NoCall

AddStocked ==
    /\ Idle
    /\ \E id \in {<<"a", "1">>, <<"b", "2">>}, stock_quantity \in StockArgs :
          add_product(id, <<"a", "b">>, CatC, 1, 2, stock_quantity, 1)

GetStockAlerts ==
    /\ Idle
    /\ \E suggest_order \in BOOLEAN : get_stock_alerts(suggest_order)

\* generate_low_stock_alerts with its default arguments.
ReportAlerts ==
    /\ Idle
    /\ \E has_tm \in BOOLEAN :
          GenerateLowStockAlerts(has_tm, TRUE, TRUE, 0, DEFAULT_LOOKBACK_DAYS)

NextAlerts ==
    \/ AddStocked
    \/ GetStockAlerts
    \/ ReportAlerts
    \/ SearchProducts
    \/ Return

SpecAlerts == InitAlerts /\ [][NextAlerts]_vars

\* ------------------------------------------------------------------------
\* SpecFinance: compute_financial_summary over a catalog and a ledger
\* ------------------------------------------------------------------------
\* Prices are whole numbers of the currency; the summary's decimal strings
\* are kept as the numbers they spell.  A period stands for a (month, year)
\* pair: the calendar is cut into periods of 30 days of wall-clock time, and
\* a call either gives both month and year (Present) or not (Absent).
HoursPerPeriod == 24 * 30

PeriodOf(date) == date.wall \div HoursPerPeriod

\* _in_period taking a missing date as inside the period.
InPeriodOrUndated(date, period) ==
    date = NoDate \/ PeriodOf(parse_iso_datetime(date)) = period.value

\* _in_period, under "month is not None and year is not None".
_in_period(date, period) ==
    /\ date # NoDate
    /\ PeriodOf(parse_iso_datetime(date)) = period.value

\* products.get(pid): the positions of the catalog holding the identifier.
CatalogAt(pid) == {i \in 1..Len(products) : products[i].product_id = pid}

\* A price of 1 for a product the catalog does not hold.
SellPriceUnknownOne(pid) ==
    IF CatalogAt(pid) = {} THEN 1
    ELSE products[CHOOSE i \in CatalogAt(pid) : \A j \in CatalogAt(pid) : j <= i].sell_price

SellPrice(pid) ==
    IF CatalogAt(pid) = {} THEN 0
    ELSE products[CHOOSE i \in CatalogAt(pid) : \A j \in CatalogAt(pid) : j <= i].sell_price

CostPrice(pid) ==
    IF CatalogAt(pid) = {} THEN 0
    ELSE products[CHOOSE i \in CatalogAt(pid) : \A j \in CatalogAt(pid) : j <= i].cost_price

UNCATEGORIZED == <<"U", "N", "C", "A", "T", "E", "G", "O", "R", "I", "Z", "E", "D">>

CategoryIn(pid, default) ==
    IF CatalogAt(pid) = {} THEN default
    ELSE products[CHOOSE i \in CatalogAt(pid) : \A j \in CatalogAt(pid) : j <= i].category

NameIn(pid) ==
    IF CatalogAt(pid) = {} THEN <<>>
    ELSE products[CHOOSE i \in CatalogAt(pid) : \A j \in CatalogAt(pid) : j <= i].name

\* The transactions the loop does not skip: inside the period when one is
\* given, with an identifier and a quantity above 0.
FinCounted(t, period) ==
    /\ period.present => _in_period(safe_get(t, "date", NoDate), period)
    /\ Strip(safe_get(t, "product_id", <<>>)) # <<>>
    /\ safe_get(t, "quantity", 0) > 0

FinType(t) == UpperType(safe_get(t, "trans_type", ""))

\* What one transaction adds to total_revenue, total_cost and the sold
\* quantity of its product.
TxContributionImportSold(t, period) ==
    LET pid == Strip(safe_get(t, "product_id", <<>>))
        qty == safe_get(t, "quantity", 0)
    IN IF ~FinCounted(t, period) THEN [revenue |-> 0, cost |-> 0, sold |-> 0]
       ELSE IF FinType(t) \in {"EXPORT", "OUT", "IMPORT"}
       THEN [revenue |-> SellPrice(pid) * qty, cost |-> CostPrice(pid) * qty,
             sold |-> qty]
       ELSE [revenue |-> 0, cost |-> 0, sold |-> 0]

TxContribution(t, period) ==
    LET pid == Strip(safe_get(t, "product_id", <<>>))
        qty == safe_get(t, "quantity", 0)
    IN IF ~FinCounted(t, period) THEN [revenue |-> 0, cost |-> 0, sold |-> 0]
       ELSE IF FinType(t) \in {"EXPORT", "OUT"}
       THEN [revenue |-> SellPrice(pid) * qty, cost |-> CostPrice(pid) * qty,
             sold |-> qty]
       ELSE IF FinType(t) = "IMPORT"
       THEN [revenue |-> 0, cost |-> CostPrice(pid) * qty, sold |-> 0]
       ELSE [revenue |-> 0, cost |-> 0, sold |-> 0]

\* sorted(items, key=quantity), reverse or not: a stable sort, so items of
\* equal quantity stay in the order of the accumulator.
RECURSIVE SortByQuantity(_, _)
SortByQuantity(items, reverse) ==
    IF items = <<>> THEN <<>>
    ELSE LET h == Head(items)
             rest == SortByQuantity(Tail(items), reverse)
             Precedes(x) == IF reverse THEN x.qty > h.qty ELSE x.qty < h.qty
             Follows(x) == ~Precedes(x)
         IN SelectSeq(rest, Precedes) \o <<h>> \o SelectSeq(rest, Follows)

\* make_item_list without the cut at top_k.
MakeItemListUncut(items_list, top_k) ==
    [k \in 1..Len(items_list) |->
        LET pid == items_list[k].product_id
            qty == items_list[k].qty
        IN [product_id |-> pid, name |-> NameIn(pid),
            category |-> CategoryIn(pid, <<>>), quantity_sold |-> qty,
            revenue |-> SellPrice(pid) * qty, cost |-> CostPrice(pid) * qty,
            profit |-> SellPrice(pid) * qty - CostPrice(pid) * qty]]

\* make_item_list: the first top_k items (top_k >= 0) with their figures.
make_item_list(items_list, top_k) ==
    [k \in 1..Min(top_k, Len(items_list)) |->
        LET pid == items_list[k].product_id
            qty == items_list[k].qty
        IN [product_id |-> pid, name |-> NameIn(pid),
            category |-> CategoryIn(pid, <<>>), quantity_sold |-> qty,
            revenue |-> SellPrice(pid) * qty, cost |-> CostPrice(pid) * qty,
            profit |-> SellPrice(pid) * qty - CostPrice(pid) * qty]]

\* A category profit that leaves the cost out.
CategoryProfitOfRevenue(sell, cost, sold_qty) == sell * sold_qty

\* What one product adds to the profit of its category:
\* by_category[cat]["profit"] += (sell - cost) * sold_qty
CategoryProfit(sell, cost, sold_qty) == (sell - cost) * sold_qty

\* compute_financial_summary; the file written when a period is given is not
\* part of the summary and a failure to write it is logged, not raised.
compute_financial_summary(txs, period, top_k, include_zero_sales) ==
    LET added == [i \in 1..Len(txs) |-> TxContribution(txs[i], period)]
        PidAt(i) == Strip(safe_get(txs[i], "product_id", <<>>))
        total_revenue == SumSeq([i \in 1..Len(txs) |-> added[i].revenue])
        total_cost == SumSeq([i \in 1..Len(txs) |-> added[i].cost])
        Sold == {i \in 1..Len(txs) : added[i].sold # 0}
        qty_by_product ==
            [pid \in {PidAt(i) : i \in Sold} |->
                SumSeq([i \in 1..Len(txs) |->
                           IF PidAt(i) = pid THEN added[i].sold ELSE 0])]
        IsFirst(i) == i \in Sold /\ \A j \in 1..(i - 1) : j \in Sold => PidAt(j) # PidAt(i)
        firsts == SelectSeq([i \in 1..Len(txs) |-> i], IsFirst)
        items == [k \in 1..Len(firsts) |->
                     [product_id |-> PidAt(firsts[k]),
                      qty |-> qty_by_product[PidAt(firsts[k])]]]
        Cats == {CategoryIn(pid, UNCATEGORIZED) : pid \in DOMAIN qty_by_product}
        OfCat(cat) == {k \in 1..Len(items) :
                          CategoryIn(items[k].product_id, UNCATEGORIZED) = cat}
        CatSum(cat, f) == SumSeq([k \in 1..Len(items) |->
                                     IF k \in OfCat(cat) THEN f[k] ELSE 0])
        rev == [k \in 1..Len(items) |-> SellPrice(items[k].product_id) * items[k].qty]
        cst == [k \in 1..Len(items) |-> CostPrice(items[k].product_id) * items[k].qty]
        prf == [k \in 1..Len(items) |->
                   CategoryProfit(SellPrice(items[k].product_id),
                                  CostPrice(items[k].product_id), items[k].qty)]
        qts == [k \in 1..Len(items) |-> items[k].qty]
        items_sorted_desc == SortByQuantity(items, TRUE)
        items_sorted_asc == SortByQuantity(items, FALSE)
        Positive(it) == it.qty > 0
    IN [total_revenue |-> total_revenue,
        total_cost |-> total_cost,
        total_profit |-> total_revenue - total_cost,
        by_category |->
            [cat \in Cats |->
                [revenue |-> CatSum(cat, rev), cost |-> CatSum(cat, cst),
                 profit |-> CatSum(cat, prf),
                 quantity |-> CatSum(cat, qts)]],
        top_sellers |-> make_item_list(items_sorted_desc, top_k),
        least_purchased |->
            make_item_list(IF include_zero_sales THEN items_sorted_asc
                           ELSE SelectSeq(items_sorted_asc, Positive), top_k),
        product_sales |-> qty_by_product]

\* How the call ends if every failure of the export were raised again.
ExportStatusPropagated(period, write_ok) ==
    IF period.present /\ ~write_ok THEN "OSError" ELSE "ok"

\* How the call ends: the export is attempted when a period is given, and
\* whatever it raises (write_ok is false) is caught and logged.
ExportStatus(period, write_ok) == "ok"

ComputeFinancialSummary(period, top_k, include_zero_sales, write_ok) ==
    /\ ret' = Returned("compute_financial_summary", ExportStatus(period, write_ok),
                       [period |-> period, top_k |-> top_k,
                        include_zero_sales |-> include_zero_sales,
                        write_ok |-> write_ok],
                       compute_financial_summary(transactions, period, top_k,
                                                 include_zero_sales))
    /\ UNCHANGED <<category_names, products, version, transactions, _index,
                   _index_version, env_vars>>

DEFAULT_TOP_K == 5

FinanceCatalog ==
    << Product(<<"a", "1">>, <<"a", "b">>, CatC, 2, 3, 5, 1),
       Product(<<"b", "2">>, <<"c", "a", "b">>, CatAb, 1, 5, 5, 1) >>

\* Sales and a purchase of this period, a sale of a product the catalog does
\* not hold, a sale of the period before, and a sale whose date was set to
\* None after construction.
FinanceTx ==
    {Transaction(<<"a", "1">>, "EXPORT", 2, Aware(Now - 12, "UTC")),
     Transaction(<<"b", "2">>, "EXPORT", 1, Aware(Now - 12, "UTC")),
     Transaction(<<"a", "1">>, "IMPORT", 3, Aware(Now - 12, "UTC")),
     Transaction(<<"c", "1">>, "EXPORT", 1, Aware(Now - 12, "UTC")),
     Transaction(<<"c", "1">>, "IMPORT", 2, Aware(Now - 12, "UTC")),
     Transaction(<<"b", "2">>, "EXPORT", 2, Aware(Now - HoursPerPeriod, "UTC")),
     [Transaction(<<"a", "1">>, "EXPORT", 1, NowVN) EXCEPT !.date = NoDate]}

PeriodArgs == {Absent, Present(PeriodOf(Aware(Now, "UTC")))}
TopKArgs == {1, DEFAULT_TOP_K}

InitFinance ==
    /\ category_names = <<CatC, CatAb>>
    /\ products = FinanceCatalog
    /\ version = Absent
    /\ transactions \in UNION {[1..n -> FinanceTx] : n \in 0..MaxTx}
    /\ _index = NoIndex
    /\ _index_version = Absent
    /\ trans_mgr_attached = TRUE
    /\ has_rapidfuzz = FALSE
    /\ has_unidecode = FALSE
    /\ field_order = <<"product_id", "name", "category">>
    /\ ret = NoCall

FinancialSummary ==
    /\ Idle
    /\ \E period \in PeriodArgs, top_k \in TopKArgs, include_zero_sales \in BOOLEAN,
          write_ok \in BOOLEAN :
          ComputeFinancialSummary(period, top_k, include_zero_sales, write_ok)

NextFinance == FinancialSummary \/ Return

SpecFinance == InitFinance /\ [][NextFinance]_vars

\* ------------------------------------------------------------------------
\* Claims on search_products and autocomplete_products (SpecSearch)
\* ------------------------------------------------------------------------
IsAutocomplete == ret.op = "autocomplete_products" /\ ret.status = "ok"

Ranked == ret.value.ranked

TierRank(match_type) ==
    CASE match_type = "prefix" -> 3
      [] match_type = "substring" -> 2
      [] match_type = "fuzzy" -> 1

\* The number of EXPORT transactions of the ledger for a product.
ExportCount(product_id) ==
    Cardinality({i \in 1..Len(transactions) :
                    /\ transactions[i].trans_type = "EXPORT"
                    /\ transactions[i].product_id = product_id})

\* C3: tier ranking.  Of two matched products with the same number of
\* exports, the one matched at the higher tier (prefix over substring over
\* fuzzy) has the strictly higher search_score and the earlier position.
C3_TierRanking ==
    IsSearch =>
        \A i, j \in 1..Len(Ranked) :
            (/\ ExportCount(Ranked[i].product_id) = ExportCount(Ranked[j].product_id)
             /\ TierRank(Ranked[i].match_type) > TierRank(Ranked[j].match_type))
            => /\ Ranked[i].search_score > Ranked[j].search_score
               /\ i < j

\* A search that returned a substring match and a fuzzy match of products
\* with the same number of exports.
C3_Witness ==
    /\ IsSearch
    /\ \E i, j \in 1..Len(Ranked) :
          /\ Ranked[i].match_type = "substring"
          /\ Ranked[j].match_type = "fuzzy"
          /\ ExportCount(Ranked[i].product_id) = ExportCount(Ranked[j].product_id)

\* The boost inside a result: its score less the base score of its tier.
BoostIn(r) == r.search_score - 100 * TierRank(r.match_type)

CatalogIds == {products[i].product_id : i \in 1..Len(products)}

\* C4: popularity boost.  The amount a search adds to the base score of a
\* matched product is min(50, number of its EXPORT transactions in the
\* ledger), 0 when the engine has no ledger, never above 50; over any step
\* the boost of no product decreases, and a step that appends an IMPORT
\* transaction leaves every boost as it was.
C4_PopularityBoost ==
    [][/\ (ret'.op = "search_products" /\ ret'.status = "ok") =>
             \A i \in 1..Len(ret'.value.ranked) :
                LET r == ret'.value.ranked[i]
                    n == Cardinality({k \in 1..Len(transactions') :
                            /\ transactions'[k].trans_type = "EXPORT"
                            /\ transactions'[k].product_id = r.product_id})
                IN /\ BoostIn(r) = (IF trans_mgr_attached THEN Min(50, n) ELSE 0)
                   /\ BoostIn(r) <= 50
       /\ \A id \in CatalogIds :
             /\ PopularityBoost(id)' >= PopularityBoost(id)
             /\ (/\ Len(transactions') = Len(transactions) + 1
                 /\ transactions'[Len(transactions')].trans_type = "IMPORT")
                => PopularityBoost(id)' = PopularityBoost(id)]_vars

\* A search that ranked, with a boost of 50, a product that has more than 50
\* EXPORT transactions, the last of them recorded by add_transaction.
C4_Witness ==
    /\ IsSearch
    /\ trans_mgr_attached
    /\ Len(transactions) = LoadedTx + MaxTx
    /\ \E i \in 1..Len(Ranked) :
          /\ ExportCount(Ranked[i].product_id) > 50
          /\ BoostIn(Ranked[i]) = 50

RECURSIVE SumOver(_, _)
SumOver(f, S) ==
    IF S = {} THEN 0
    ELSE LET x == CHOOSE y \in S : TRUE IN f[x] + SumOver(f, S \ {x})

\* C5: the facet counts add up to total, both count the whole matched list
\* and not the page, and neither changes when only page or per_page change:
\* whatever page was asked for, they are those of the same search asked for
\* its first page of DEFAULT_PER_PAGE results.
C5_FacetsSumToTotal ==
    IsSearch =>
        /\ SumOver(ret.value.facets, DOMAIN ret.value.facets) = ret.value.total
        /\ ret.value.total = Len(Ranked)
        /\ \A c \in DOMAIN ret.value.facets :
              ret.value.facets[c] =
                 Cardinality({i \in 1..Len(Ranked) : Ranked[i].category = c})
        /\ ret.args.keyword # <<>> =>
              LET first == SearchOver(_index.entries, ret.args.keyword,
                                      ret.args.field, ret.args.category,
                                      ret.args.fuzzy, 1, DEFAULT_PER_PAGE)
              IN /\ first.total = ret.value.total
                 /\ first.facets = ret.value.facets

\* A search whose page is shorter than the matched list, over two categories.
C5_Witness ==
    /\ IsSearch
    /\ Len(ret.value.results) < ret.value.total
    /\ Cardinality(DOMAIN ret.value.facets) = 2

\* C6: the ranked list is in descending order of search_score, results of
\* equal score are in ascending order of product identifier, and the page is
\* the slice of the list from position (page-1)*per_page (0-based) up to
\* page*per_page - 1.
C6_ResultOrder ==
    IsSearch =>
        /\ \A i, j \in 1..Len(Ranked) :
              i < j =>
                 \/ Ranked[i].search_score > Ranked[j].search_score
                 \/ /\ Ranked[i].search_score = Ranked[j].search_score
                    /\ ~StrLess(Ranked[j].product_id, Ranked[i].product_id)
        /\ LET first == (ret.args.page - 1) * ret.args.per_page
               last == Min(ret.args.page * ret.args.per_page, Len(Ranked))
           IN /\ Len(ret.value.results) = Max(0, last - first)
              /\ \A k \in 1..Len(ret.value.results) :
                    ret.value.results[k] = Ranked[first + k]

\* A search that returned the second page of one result, the two results
\* having the same score.
C6_Witness ==
    /\ IsSearch
    /\ ret.args.page = 2
    /\ Len(ret.value.results) = 1
    /\ Len(Ranked) = 2
    /\ Ranked[1].search_score = Ranked[2].search_score

\* The index entry of a product identifier.
EntryOf(product_id) ==
    _index.entries[CHOOSE i \in 1..Len(_index.entries) :
                      _index.entries[i].product.product_id = product_id]

CanonicalFieldOrder == <<"product_id", "name", "category">>

\* The first field, in the order identifier, name, category, in which the
\* product's entry qualifies for the keyword of the last search.
FirstQualifying(r) ==
    LET kw_norm == normalize_name(ret.args.keyword, FALSE)
        kw_plain == _remove_accents(ret.args.keyword)
        Q == {i \in 1..3 : MatchType(EntryOf(r.product_id), CanonicalFieldOrder[i],
                                     kw_norm, kw_plain, ret.args.fuzzy) # "none"}
    IN CanonicalFieldOrder[CHOOSE i \in Q : \A j \in Q : i <= j]

\* C7: field precedence.  In a search without field restriction every result
\* reports the first of identifier, name, category that qualifies, with that
\* field's tier, and no product is reported twice.
C7_FieldPrecedence ==
    (IsSearch /\ ret.args.field = None) =>
        /\ \A i \in 1..Len(Ranked) :
              /\ Ranked[i].matched_field = FirstQualifying(Ranked[i])
              /\ Ranked[i].match_type =
                    MatchType(EntryOf(Ranked[i].product_id),
                              FirstQualifying(Ranked[i]),
                              normalize_name(ret.args.keyword, FALSE),
                              _remove_accents(ret.args.keyword), ret.args.fuzzy)
        /\ \A i, j \in 1..Len(Ranked) :
              i # j => Ranked[i].product_id # Ranked[j].product_id

IsCall(op) == ret.op = op

\* C8 as stated: a field name that is given and not one of product_id, name,
\* category ends search_products and autocomplete_products in a ValueError
\* for every keyword or prefix, the empty one included.
C8_UnknownFieldRejected ==
    /\ (IsCall("search_products") /\ ret.args.field # None
           /\ ret.args.field \notin {"product_id", "name", "category"})
          => ret.status = "ValueError"
    /\ (IsCall("autocomplete_products")
           /\ ret.args.field \notin {"product_id", "name", "category"})
          => ret.status = "ValueError"

\* C8 as amended: with a non-empty keyword, a non-empty field name that is
\* not one of product_id, name, category ends search_products in a
\* ValueError; with a non-empty prefix, any field that is not one of the
\* three ends autocomplete_products in a ValueError; with an empty keyword or
\* prefix the call returns the empty result whatever the field is.
C8_UnknownFieldRejectedNonEmpty ==
    /\ (IsCall("search_products") /\ ret.args.keyword # <<>>
           /\ ret.args.field \notin {None, "", "product_id", "name", "category"})
          => ret.status = "ValueError"
    /\ (IsCall("autocomplete_products") /\ ret.args.prefix # <<>>
           /\ ret.args.field \notin {"product_id", "name", "category"})
          => ret.status = "ValueError"
    /\ (IsCall("search_products") /\ ret.args.keyword = <<>>)
          => (ret.status = "ok" /\ ret.value.total = 0 /\ ret.value.results = <<>>)
    /\ (IsCall("autocomplete_products") /\ ret.args.prefix = <<>>)
          => (ret.status = "ok" /\ ret.value = <<>>)

\* A search with a keyword and the unknown field "price" that ended in a
\* ValueError.
C8_Witness ==
    /\ IsCall("search_products")
    /\ ret.args.keyword # <<>>
    /\ ret.args.field = "price"
    /\ ret.status = "ValueError"

\* The values of a field over the index, in index order.
IndexValues(field) ==
    [i \in 1..Len(_index.entries) |-> ProductField(_index.entries[i].product, field)]

\* C9: with a non-empty prefix autocomplete_products returns at most limit
\* values, pairwise distinct, each the value of the field of an indexed
\* product whose accent-stripped lower-case form starts with the
\* accent-stripped lower-case prefix, in the order of their first occurrence
\* in the index.
C9_Autocomplete ==
    (IsAutocomplete /\ ret.args.prefix # <<>>) =>
        LET out == ret.value
            vals == IndexValues(ret.args.field)
            pref == Lower(_remove_accents(ret.args.prefix))
            FirstAt(v) == CHOOSE i \in 1..Len(vals) :
                             vals[i] = v /\ \A j \in 1..(i - 1) : vals[j] # v
        IN /\ Len(out) <= ret.args.limit
           /\ \A i, j \in 1..Len(out) : i # j => out[i] # out[j]
           /\ \A i \in 1..Len(out) :
                 /\ \E k \in 1..Len(vals) : vals[k] = out[i]
                 /\ StartsWith(Lower(_remove_accents(out[i])), pref)
           /\ \A i, j \in 1..Len(out) : i < j => FirstAt(out[i]) < FirstAt(out[j])

\* ------------------------------------------------------------------------
\* Claims on the demand estimator (SpecRates)
\* ------------------------------------------------------------------------
\* The type of a ledger record: the trans_type of a Transaction, the "type"
\* of a mapping.
RecordType(t) ==
    IF "trans_type" \in DOMAIN t THEN t.trans_type ELSE safe_get(t, "type", "OUT")

NotImport(t) == UpperType(RecordType(t)) # "IMPORT"

\* C10: the demand estimator counts sales only.  What compute_sale_rates
\* returns is what it returns for the same records without the IMPORT ones,
\* for Transaction objects and for mappings, and the daily_sale_rate of every
\* item of generate_low_stock_alerts is the rate of the ledger without its
\* IMPORT transactions.
C10_RatesCountExportsOnly ==
    /\ (ret.op = "compute_sale_rates" /\ ret.status = "ok") =>
          ret.value = compute_sale_rates(SelectSeq(ret.args.transactions, NotImport),
                                         ret.args.product_ids,
                                         ret.args.lookback_days).value
    /\ (ret.op = "generate_low_stock_alerts" /\ ret.args.has_tm) =>
          LET sales == compute_sale_rates(SelectSeq(transactions, NotImport),
                                          AllProducts, ret.args.lookback_days).value
              Expected(item) ==
                  IF item.product_id \in DOMAIN sales /\ sales[item.product_id] # 0
                  THEN Present(sales[item.product_id]) ELSE Absent
              listed == ret.value.out_of_stock \o ret.value.low_stock
          IN \A i \in 1..Len(listed) :
                listed[i].daily_sale_rate = Expected(listed[i])

\* The instant of the date of a record, for a date that parses, with a naive
\* date read in the time zone tz.
InstantIn(t, tz) ==
    LET date == safe_get(t, "date", NoDate)
    IN IF date.tz = "naive" THEN date.wall - TzOffset(tz)
       ELSE Instant(date)

HasDate(t) == safe_get(t, "date", NoDate) \notin {NoDate, BadDate}

\* A dated record whose instant, as the estimator reads it, is before
\* now - lookback_days or after now.
OutsideWindow(t, lookback_days) ==
    /\ HasDate(t)
    /\ \/ InstantIn(t, "UTC") < Now - 24 * lookback_days
       \/ InstantIn(t, "UTC") > Now

\* C11 as stated: compute_sale_rates counts the quantities dated from
\* now - lookback_days to now and nothing else: a record dated before the
\* start of the window or after now contributes nothing, so the result is
\* the result for the same records without those, and each rate is the sum
\* of the counted quantities of the window over the lookback days.
C11_RatesWindowed ==
    (IsCall("compute_sale_rates") /\ ret.status = "ok") =>
        LET txs == ret.args.transactions
            L == ret.args.lookback_days
            Inside(t) == ~OutsideWindow(t, L)
        IN ret.value = compute_sale_rates(SelectSeq(txs, Inside),
                                          ret.args.product_ids, L).value

\* The same records with every naive date tagged VN_TZ at the same wall
\* clock.
TaggedVN(txs) ==
    [i \in 1..Len(txs) |->
        IF HasDate(txs[i]) /\ txs[i].date.tz = "naive"
        THEN [txs[i] EXCEPT !.date = [wall |-> txs[i].date.wall, tz |-> "VN"]]
        ELSE txs[i]]

\* C12 as stated: a naive timestamp is read in VN_TZ, so a naive timestamp
\* and the same wall clock tagged VN_TZ are both inside or both outside the
\* window: the rates of the records are the rates of the same records with
\* their naive dates tagged VN_TZ.
C12_NaiveReadAsVN ==
    (IsCall("compute_sale_rates") /\ ret.status = "ok") =>
        ret.value = compute_sale_rates(TaggedVN(ret.args.transactions),
                                       ret.args.product_ids,
                                       ret.args.lookback_days).value

\* ------------------------------------------------------------------------
\* Claims on the replenishment advisor (SpecRates)
\* ------------------------------------------------------------------------
\* The EXPORT transactions of a product dated from now - days to now.
WindowExports(p, days) ==
    {i \in 1..Len(transactions) :
        /\ transactions[i].product_id = p.product_id
        /\ transactions[i].trans_type = "EXPORT"
        /\ transactions[i].date # NoDate
        /\ Instant(transactions[i].date) >= Now - 24 * days
        /\ Instant(transactions[i].date) <= Now}

\* The EXPORT transactions of a product dated after now.
FutureExports(p) ==
    {i \in 1..Len(transactions) :
        /\ transactions[i].product_id = p.product_id
        /\ transactions[i].trans_type = "EXPORT"
        /\ transactions[i].date # NoDate
        /\ Instant(transactions[i].date) > Now}

\* C13: _suggest_order_quantity returns an integer that is at least 0 and
\* does not raise, whatever the stock, the threshold, the lookback days, the
\* lead time and the ledger are: no ledger, an empty ledger, transactions
\* dated after now.
C13_SuggestedNonNegative ==
    IsCall("_suggest_order_quantity") => (ret.status = "ok" /\ ret.value \in Nat)

\* A call with a ledger attached that counted an EXPORT dated after now,
\* with a negative lead time and stock on hand, so that the reorder point is
\* below the stock, and returned 0.
C13_Witness ==
    /\ IsCall("_suggest_order_quantity")
    /\ trans_mgr_attached
    /\ FutureExports(ret.args.p) # {}
    /\ ret.args.lead_time_days < 0
    /\ ret.args.p.stock_quantity > 0
    /\ ret.value = 0

\* C14 as stated: without a ledger, or when the product has no EXPORT
\* transaction dated inside the lookback window, the suggested order is
\* max(0, min_threshold - stock_quantity) and nothing is raised.
C14_FallbackWithoutSales ==
    (/\ IsCall("_suggest_order_quantity")
     /\ ~trans_mgr_attached \/ WindowExports(ret.args.p, ret.args.days) = {})
        => /\ ret.status = "ok"
           /\ ret.value = Max(0, ret.args.p.min_threshold - ret.args.p.stock_quantity)

\* C15 as stated: for a product with an EXPORT in the lookback window the
\* suggested order is max(0, reorder_point - stock) with safety_stock =
\* max(1, floor(0.2 * r * lead_time_days)) and reorder_point =
\* floor(r * lead_time_days) + safety_stock, where r is the total EXPORT
\* quantity of the window over the lookback days.
C15_AdvisorFormula ==
    (/\ IsCall("_suggest_order_quantity")
     /\ trans_mgr_attached
     /\ ret.args.lead_time_days >= 0
     /\ WindowExports(ret.args.p, ret.args.days) # {})
        => LET W == WindowExports(ret.args.p, ret.args.days)
               total == SumSeq([i \in 1..Len(transactions) |->
                                   IF i \in W THEN transactions[i].quantity ELSE 0])
               lead == ret.args.lead_time_days
               L == ret.args.days
               safety_stock == Max(1, (total * lead) \div (5 * L))
               reorder_point == ((total * lead) \div L) + safety_stock
           IN ret.value = Max(0, reorder_point - ret.args.p.stock_quantity)

\* ------------------------------------------------------------------------
\* Claims on the stock alerts (SpecAlerts, SpecRates)
\* ------------------------------------------------------------------------
\* Whether a list of alert items holds the product.
Listed(items, product_id) ==
    \E i \in 1..Len(items) : items[i].product_id = product_id

\* The classification of the catalog by two lists: a product is in the first
\* exactly when its stock is 0, in the second exactly when its stock is above
\* 0 and at most its threshold, and never in both.
ClassifiedBy(out_of_stock, low_stock) ==
    \A i \in 1..Len(products) :
        LET p == products[i] IN
        /\ Listed(out_of_stock, p.product_id) <=> p.stock_quantity = 0
        /\ Listed(low_stock, p.product_id) <=>
               (0 < p.stock_quantity /\ p.stock_quantity <= p.min_threshold)
        /\ ~(Listed(out_of_stock, p.product_id) /\ Listed(low_stock, p.product_id))

\* C16 as stated: generate_low_stock_alerts and SearchEngine.get_stock_alerts
\* list every product of the catalog in out_of_stock iff its stock is 0, in
\* low_stock iff 0 < stock <= min_threshold, in neither list otherwise and
\* never in both, so the two classify every product the same way.
C16_AlertClassification ==
    /\ IsCall("generate_low_stock_alerts") =>
          ClassifiedBy(ret.value.out_of_stock, ret.value.low_stock)
    /\ IsCall("get_stock_alerts") =>
          ClassifiedBy(ret.value.out_of_stock, ret.value.low_stock)

\* The items of the two lists of the last generate_low_stock_alerts.
AlertItems == ret.value.out_of_stock \o ret.value.low_stock

\* C17: every alert item has needed = max(0, min_threshold - stock) +
\* max(0, reorder_buffer) when its stock is below its threshold and 0
\* otherwise, never a negative number, also with a negative reorder_buffer;
\* total_needed is the sum of needed over the items of out_of_stock and
\* low_stock and no others.
C17_NeededQuantity ==
    IsCall("generate_low_stock_alerts") =>
        /\ \A i \in 1..Len(AlertItems) :
              LET item == AlertItems[i] IN
              /\ item.needed >= 0
              /\ item.needed =
                    IF item.stock_quantity < item.min_threshold
                    THEN Max(0, item.min_threshold - item.stock_quantity)
                            + Max(0, ret.args.reorder_buffer)
                    ELSE 0
        /\ ret.value.total_needed =
              SumSeq([i \in 1..Len(AlertItems) |-> AlertItems[i].needed])

\* A report with a negative reorder_buffer and out_of_stock switched off:
\* the product without stock is in no list and only the need of the one
\* low-stock item is counted.
C17_Witness ==
    /\ IsCall("generate_low_stock_alerts")
    /\ ret.args.reorder_buffer < 0
    /\ ~ret.args.include_out_of_stock
    /\ \E i \in 1..Len(products) :
          products[i].stock_quantity = 0 /\ products[i].min_threshold > 0
    /\ Len(ret.value.low_stock) = 1
    /\ ret.value.low_stock[1].needed = 1
    /\ ret.value.total_needed = 1

\* The rates generate_low_stock_alerts computed in the last call.
ReportRates ==
    IF ret.args.has_tm /\ transactions # <<>>
    THEN compute_sale_rates(transactions, AllProducts, ret.args.lookback_days).value
    ELSE <<>>

\* C18: an item of generate_low_stock_alerts carries days_until_stockout
\* (and predicted_out_soon with it) only when the daily sale rate of the
\* product is present and above 0; an item whose rate is absent or 0 has
\* neither.
C18_ForecastOnlyWithRate ==
    IsCall("generate_low_stock_alerts") =>
        \A i \in 1..Len(AlertItems) :
            LET item == AlertItems[i]
                rate_present == item.product_id \in DOMAIN ReportRates
            IN (item.days_until_stockout.present \/ item.predicted_out_soon)
                  => (rate_present /\ ReportRates[item.product_id] > 0)

\* A report that listed a product in stock whose rate is present and 0.0 (a
\* single sale over 400 days), without days_until_stockout.
C18_Witness ==
    /\ IsCall("generate_low_stock_alerts")
    /\ \E i \in 1..Len(ret.value.low_stock) :
          LET item == ret.value.low_stock[i] IN
          /\ item.product_id \in DOMAIN ReportRates
          /\ ReportRates[item.product_id] = 0
          /\ ~item.days_until_stockout.present
          /\ ~item.predicted_out_soon

\* C19 as stated: an alerted product with a daily sale rate above 0 has an
\* item with daily_sale_rate, days_until_stockout = stock / rate and
\* predicted_out_soon = (days_until_stockout <= 7), whatever its stock is,
\* 0 included.
C19_ForecastForEveryStock ==
    IsCall("generate_low_stock_alerts") =>
        \A i \in 1..Len(AlertItems) :
            LET item == AlertItems[i]
                pid == item.product_id
            IN (pid \in DOMAIN ReportRates /\ ReportRates[pid] > 0) =>
                  LET rate == ReportRates[pid] IN
                  /\ item.daily_sale_rate = Present(rate)
                  /\ item.days_until_stockout =
                        Present(RoundHalfEven(10000 * item.stock_quantity, rate))
                  /\ item.predicted_out_soon =
                        (100 * item.stock_quantity <= PREDICT_SOON_DAYS * rate)

\* ------------------------------------------------------------------------
\* Claims on the financial summary (SpecFinance)
\* ------------------------------------------------------------------------
\* The type and the catalog prices of the transaction at a position of the
\* ledger.
IsExportAt(i) == transactions[i].trans_type = "EXPORT"
IsImportAt(i) == transactions[i].trans_type = "IMPORT"
SellAt(i) == SellPrice(transactions[i].product_id)
CostAt(i) == CostPrice(transactions[i].product_id)

\* The positions of the ledger that the last summary counted.
CountedAt == {i \in 1..Len(transactions) : FinCounted(transactions[i], ret.args.period)}

\* The sum of f over the positions S taken in the order given by the
\* permutation perm of the positions of the ledger.
SumInOrder(f, S, perm) ==
    SumSeq([k \in 1..Len(perm) |-> IF perm[k] \in S THEN f[perm[k]] ELSE 0])

LedgerOrders == {perm \in [1..Len(transactions) -> 1..Len(transactions)] :
                    \A i, j \in 1..Len(transactions) : perm[i] = perm[j] => i = j}

\* C20: the totals of compute_financial_summary are the sums of what each
\* counted transaction adds, in whatever order they are taken: an EXPORT of q
\* units adds sell_price * q to the revenue, cost_price * q to the cost and q
\* to the sold quantity of its product, an IMPORT of q units adds
\* cost_price * q to the cost and nothing else; total_profit is
\* total_revenue - total_cost.
C20_TotalsAdditive ==
    IsCall("compute_financial_summary") =>
        LET n == Len(transactions)
            revenue == [i \in 1..n |->
                           IF IsExportAt(i) THEN SellAt(i) * transactions[i].quantity
                           ELSE 0]
            cost == [i \in 1..n |->
                        IF IsExportAt(i) \/ IsImportAt(i)
                        THEN CostAt(i) * transactions[i].quantity ELSE 0]
            sold == [i \in 1..n |->
                        IF IsExportAt(i) THEN transactions[i].quantity ELSE 0]
            Pids == {transactions[i].product_id : i \in {j \in CountedAt : IsExportAt(j)}}
            Of(pid) == {i \in CountedAt : transactions[i].product_id = pid}
        IN \A perm \in LedgerOrders :
              /\ ret.value.total_revenue = SumInOrder(revenue, CountedAt, perm)
              /\ ret.value.total_cost = SumInOrder(cost, CountedAt, perm)
              /\ DOMAIN ret.value.product_sales = Pids
              /\ \A pid \in Pids :
                    ret.value.product_sales[pid] = SumInOrder(sold, Of(pid), perm)
              /\ ret.value.total_profit =
                    ret.value.total_revenue - ret.value.total_cost

\* A summary over a ledger of an EXPORT and an IMPORT of the same product:
\* the revenue is that of the sale, the cost is that of both, and only the
\* sale is in the sold quantities.
C20_Witness ==
    /\ IsCall("compute_financial_summary")
    /\ Len(transactions) = 2
    /\ \E i, j \in CountedAt :
          /\ IsExportAt(i) /\ IsImportAt(j)
          /\ transactions[i].product_id = transactions[j].product_id
          /\ ret.value.total_revenue = SellAt(i) * transactions[i].quantity
          /\ ret.value.total_cost = CostAt(i) * transactions[i].quantity
                                       + CostAt(j) * transactions[j].quantity
          /\ ret.value.product_sales[transactions[i].product_id]
                = transactions[i].quantity
    /\ ret.value.total_profit < 0

\* The positions of the counted EXPORT transactions of products the catalog
\* does not hold.
UnknownSoldAt == {i \in CountedAt : IsExportAt(i) /\ CatalogAt(transactions[i].product_id) = {}}

Known(t) == CatalogAt(t.product_id) # {}

\* The sum of the quantities at a set of positions of the ledger.
QuantityAt(S) ==
    SumSeq([i \in 1..Len(transactions) |-> IF i \in S THEN transactions[i].quantity ELSE 0])

\* C21: a transaction of a product that is not in the catalog never ends
\* compute_financial_summary in an error; an EXPORT of q units of it adds 0
\* to total_revenue and to total_cost (the totals are those of the ledger
\* without it), adds q to product_sales[product_id], and its quantity is
\* counted in the category breakdown under the uncategorized bucket, with no
\* revenue and no cost.
C21_UnknownProduct ==
    IsCall("compute_financial_summary") =>
        LET without == compute_financial_summary(SelectSeq(transactions, Known),
                                                 ret.args.period, ret.args.top_k,
                                                 ret.args.include_zero_sales)
        IN /\ ret.status = "ok"
           /\ ret.value.total_revenue = without.total_revenue
           /\ ret.value.total_cost = without.total_cost
           /\ \A i \in UnknownSoldAt :
                 LET pid == transactions[i].product_id IN
                 /\ pid \in DOMAIN ret.value.product_sales
                 /\ ret.value.product_sales[pid] =
                       QuantityAt({j \in UnknownSoldAt : transactions[j].product_id = pid})
           /\ UnknownSoldAt # {} =>
                 /\ UNCATEGORIZED \in DOMAIN ret.value.by_category
                 /\ ret.value.by_category[UNCATEGORIZED] =
                       [revenue |-> 0, cost |-> 0, profit |-> 0,
                        quantity |-> QuantityAt(UnknownSoldAt)]

\* A summary over a sale of a product of the catalog and a sale of one the
\* catalog does not hold: the unknown one is in product_sales and alone in
\* the uncategorized bucket, and the revenue is that of the known sale.
C21_Witness ==
    /\ IsCall("compute_financial_summary")
    /\ Len(transactions) = 2
    /\ Cardinality(UnknownSoldAt) = 1
    /\ ret.value.total_revenue > 0
    /\ ret.value.by_category[UNCATEGORIZED].quantity = 1
    /\ Cardinality(DOMAIN ret.value.product_sales) = 2

\* The transactions dated in the period of the last call.
InRequestedPeriod(t) ==
    t.date # NoDate /\ PeriodOf(t.date) = ret.args.period.value

\* C22: with a (month, year) period the summary is the summary computed
\* without a period from the transactions dated in that month and year
\* alone; a transaction dated outside the period, or without a date,
\* changes no total, no category figure, no sold quantity and no ranking.
C22_PeriodFilter ==
    (IsCall("compute_financial_summary") /\ ret.args.period.present) =>
        ret.value = compute_financial_summary(SelectSeq(transactions, InRequestedPeriod),
                                              Absent, ret.args.top_k,
                                              ret.args.include_zero_sales)

\* A summary for a period over a sale of the period and a sale without a
\* date: only the first is in the sold quantities.
C22_Witness ==
    /\ IsCall("compute_financial_summary")
    /\ ret.args.period.present
    /\ Len(transactions) = 2
    /\ InRequestedPeriod(transactions[1])
    /\ transactions[2].date = NoDate
    /\ transactions[1].product_id = transactions[2].product_id
    /\ IsExportAt(1) /\ IsExportAt(2)
    /\ ret.value.product_sales[transactions[1].product_id] = transactions[1].quantity

\* The sold quantity of every product the last summary counted a sale of.
SoldQuantity == ret.value.product_sales

\* C23 as stated: top_sellers holds at most top_k items, each with
\* quantity_sold > 0, in descending order of sold quantity; two products of
\* equal sold quantity are in ascending order of identifier whatever the
\* order of the ledger; no product outside the list sold more than one
\* inside it.
C23_TopSellers ==
    IsCall("compute_financial_summary") =>
        LET top == ret.value.top_sellers
            InTop == {top[k].product_id : k \in 1..Len(top)}
        IN /\ Len(top) <= ret.args.top_k
           /\ \A k \in 1..Len(top) : top[k].quantity_sold > 0
           /\ \A k, l \in 1..Len(top) :
                 k < l => top[k].quantity_sold >= top[l].quantity_sold
           /\ \A k, l \in 1..Len(top) :
                 (k < l /\ top[k].quantity_sold = top[l].quantity_sold)
                    => StrLess(top[k].product_id, top[l].product_id)
           /\ \A pid \in DOMAIN SoldQuantity \ InTop :
                 \A k \in 1..Len(top) : SoldQuantity[pid] <= top[k].quantity_sold

\* C24: with include_zero_sales = false the least_purchased list is in
\* ascending order of sold quantity, holds at most top_k items, and holds no
\* product without recorded sales in the window: every item has a counted
\* EXPORT and a quantity above 0, so a catalog product with no counted
\* EXPORT is never in it.
C24_LeastPurchased ==
    (IsCall("compute_financial_summary") /\ ~ret.args.include_zero_sales) =>
        LET least == ret.value.least_purchased IN
        /\ Len(least) <= ret.args.top_k
        /\ \A k, l \in 1..Len(least) :
              k < l => least[k].quantity_sold <= least[l].quantity_sold
        /\ \A k \in 1..Len(least) :
              /\ least[k].quantity_sold > 0
              /\ \E i \in CountedAt :
                    IsExportAt(i) /\ transactions[i].product_id = least[k].product_id

\* A summary without zero sales over a ledger that sells more of its first
\* product than of its second, while a product of the catalog is not sold:
\* the list holds the two sold products, the lesser first.
C24_Witness ==
    /\ IsCall("compute_financial_summary")
    /\ ~ret.args.include_zero_sales
    /\ Len(transactions) = 2
    /\ \E i \in 1..Len(products) :
          products[i].product_id \notin DOMAIN ret.value.product_sales
    /\ Len(ret.value.least_purchased) = 2
    /\ ret.value.least_purchased[1].product_id = transactions[2].product_id
    /\ ret.value.least_purchased[1].quantity_sold
          < ret.value.least_purchased[2].quantity_sold

\* A call with a period whose export file could not be written.
ExportFailed ==
    /\ IsCall("compute_financial_summary")
    /\ ret.args.period.present
    /\ ~ret.args.write_ok

\* C25 as stated: when month and year are both given and writing the export
\* file fails, compute_financial_summary ends in an I/O error raised to its
\* caller.
C25_ExportFailureRaised == ExportFailed => ret.status = "OSError"

\* C25 as amended: when month and year are both given and writing the
\* export file fails, compute_financial_summary raises nothing: it returns
\* the summary it returns when the file is written.
C25_ExportFailureSwallowed ==
    ExportFailed =>
        /\ ret.status = "ok"
        /\ ret.value = compute_financial_summary(transactions, ret.args.period,
                                                 ret.args.top_k,
                                                 ret.args.include_zero_sales)

\* A call for a period whose export failed and that returned a summary with
\* a sold quantity.
C25_Witness ==
    /\ ExportFailed
    /\ ret.status = "ok"
    /\ DOMAIN ret.value.product_sales # {}

\* ------------------------------------------------------------------------
\* Claims on repeated searches (SpecAlerts)
\* ------------------------------------------------------------------------
\* What search_products with the arguments of the last call ends in when it
\* is called again from the state the last call left: the catalog, the
\* version token, the ledger and the index are those of this state, since
\* returning to the caller changes none of them.
SearchAgain ==
    LET a == ret.args IN
    IF a.keyword = <<>> THEN [status |-> "ok", value |-> EmptySearchResult]
    ELSE IF FieldRejected(a.field) THEN [status |-> "ValueError", value |-> None]
    ELSE [status |-> "ok",
          value |-> SearchOver(IndexAfterEnsure.entries, a.keyword, a.field,
                               a.category, a.fuzzy, a.page, a.per_page)]

\* C26: a search_products call repeated with the same arguments, with no
\* change of the catalog, the version token or the ledger in between, returns
\* what the first call returned (results, order, matched_field, match_type,
\* search_score, total, facets) and leaves the cached index and the stored
\* version token as they are.
C26_SearchIdempotent ==
    IsCall("search_products") =>
        /\ SearchAgain.status = ret.status
        /\ ret.status = "ok" => SearchAgain.value = ret.value
        /\ ret.args.keyword # <<>> =>
              (IndexAfterEnsure = _index /\ IndexVersionAfterEnsure = _index_version)

\* A search that returned a product from an index built before the catalog
\* last changed.
C26_Witness ==
    /\ IsSearch
    /\ ret.value.total >= 1
    /\ _index # _build_index


\* ------------------------------------------------------------------------
\* Claims on the ledger and the stock (SpecPop)
\* ------------------------------------------------------------------------
AddTransactionStep == Idle /\ ret'.op = "add_transaction"

CategoryInUse(name) ==
    \E i \in 1..Len(products) :
        normalize_name(products[i].category, FALSE) = normalize_name(name, FALSE)

\* C28: remove_category called with the name of a category that some
\* product of the catalog belongs to raises an error and leaves the category
\* list unchanged.
C28_UsedCategoryKept ==
    [][(Idle /\ ret'.op = "remove_category" /\ CategoryInUse(ret'.args.name)) =>
          /\ ret'.status # "ok"
          /\ category_names' = category_names]_vars


\* The transactions recorded since the ledger was loaded.
RecordedSince == SubSeq(transactions, LoadedTx + 1, Len(transactions))

RECURSIVE NetQuantity(_, _)
\* IMPORT quantities minus EXPORT quantities of the product in txs.
NetQuantity(txs, product_id) ==
    IF txs = <<>> THEN 0
    ELSE LET t == txs[Len(txs)]
             rest == NetQuantity(SubSeq(txs, 1, Len(txs) - 1), product_id)
         IN IF t.product_id # product_id THEN rest
            ELSE IF t.trans_type = "IMPORT" THEN rest + t.quantity
            ELSE IF t.trans_type = "EXPORT" THEN rest - t.quantity
            ELSE rest

StockConserved ==
    /\ Len(products) = Len(PopCatalog)
    /\ \A i \in 1..Len(products) :
          /\ products[i].stock_quantity >= 0
          /\ products[i].stock_quantity =
                PopCatalog[i].stock_quantity
                    + NetQuantity(RecordedSince, products[i].product_id)

ExportBeyondStock ==
    LET idx == _find_index_by_id(ret'.args.product_id) IN
    /\ AddTransactionStep
    /\ UpperType(ret'.args.trans_type) = "EXPORT"
    /\ idx # 0
    /\ ret'.args.quantity > products[idx].stock_quantity

RECURSIVE SumOverSet(_, _)
\* The sum of the function f over the set S of arguments.
SumOverSet(f, S) ==
    IF S = {} THEN 0
    ELSE LET x == CHOOSE y \in S : TRUE IN f[x] + SumOverSet(f, S \ {x})

\* The sum of one column of the category breakdown of the last summary.
BreakdownTotal(column) ==
    LET by_category == ret.value.by_category
    IN SumOverSet([cat \in DOMAIN by_category |-> by_category[cat][column]],
                  DOMAIN by_category)

\* What the counted IMPORT at position i of the ledger added to total_cost.
ImportCostAt(i) ==
    IF i \in CountedAt /\ IsImportAt(i) THEN CostAt(i) * transactions[i].quantity ELSE 0

\* C30: in the summary the category revenues add up to total_revenue and
\* the category quantities to the sum of the sold-quantity map; each
\* category's profit is its revenue minus its cost; the category costs add
\* up to total_cost minus the cost of the counted IMPORT transactions, so
\* the category profits add up to total_profit exactly when no counted
\* IMPORT has a non-zero cost.
C30_BreakdownConserved ==
    IsCall("compute_financial_summary") =>
        LET v == ret.value
            positions == 1..Len(transactions)
            import_cost == SumOverSet([i \in positions |-> ImportCostAt(i)], positions)
        IN /\ BreakdownTotal("revenue") = v.total_revenue
           /\ BreakdownTotal("quantity") =
                 SumOverSet(v.product_sales, DOMAIN v.product_sales)
           /\ \A cat \in DOMAIN v.by_category :
                 v.by_category[cat].profit =
                     v.by_category[cat].revenue - v.by_category[cat].cost
           /\ BreakdownTotal("cost") = v.total_cost - import_cost
           /\ (BreakdownTotal("profit") = v.total_profit)
                 <=> (\A i \in positions : ImportCostAt(i) = 0)

\* A summary over a sale and a counted IMPORT with a cost: the category
\* profits do not add up to total_profit.
C30_Witness ==
    /\ IsCall("compute_financial_summary")
    /\ DOMAIN ret.value.by_category # {}
    /\ \E i \in 1..Len(transactions) : ImportCostAt(i) > 0
    /\ BreakdownTotal("profit") # ret.value.total_profit

====
